---- MODULE Spec2Model ----
(***************************************************************************)
(* A model of the Todo REST backend: the two tables and their constraints, *)
(* the generic Repository, the validation wrappers of the Service layer    *)
(* and the Quart handlers with their per-request connection.               *)
(*                                                                         *)
(* A request is served in steps.  Everything a handler does before its     *)
(* first await on storage (before_request, the quart-schema decorators,    *)
(* the service wrapper's input validation) touches no shared data and is   *)
(* one step; every statement sent to storage is a step of its own; what    *)
(* follows the last statement (output validation, the status code,         *)
(* after_request) belongs to the step of that statement.                   *)
(***************************************************************************)
EXTENDS Integers, Sequences, FiniteSets, TLC

\* ------------------------------------------------------------------ bounds
MaxTodoId == 2
MaxTaskId == 2
PoolMax == 1
Writers == 2
MaxTime == 1

\* ------------------------------------------------------- program constants
DEFAULT_PAGE_LIMIT == 10
MAX_PAGE_LIMIT == 100

TodoStatus == {"active", "inactive"}
TaskStatus == {"pending", "complete", "postponed"}
TaskPriority == {"low", "medium", "high"}

\* timedelta(days=1), in the unit of the clock.
OneDay == 1

\* Python's None and a present value: an optional value is a sequence of
\* length at most one, so that None differs from the empty list Some(<<>>).
None == <<>>
Some(v) == <<v>>
IsNone(o) == o = <<>>
Val(o) == o[1]

\* A key that is supplied with the value None (JSON null), where that
\* differs from leaving the key out: `due` of a payload.  Times are not
\* negative, so that -1 is the value of no time.
Null == -1
Given(o) == ~IsNone(o) /\ Val(o) # Null

\* ------------------------------------------------------------ sample inputs
Owners == {"a", "b"}
BadEnum == "bogus"

VARIABLES
    todos,      \* table todos: set of rows [todo_id, owner, status,
                \* created_at, updated_at]
    tasks,      \* table tasks: set of rows [task_id, todo_id, status, priority,
                \* contents, due, created_at, updated_at]
    todoSeq,    \* last value of the serial sequence of todos.todo_id
    taskSeq,    \* last value of the serial sequence of tasks.task_id
    pool,       \* connections of app.db_pool that are checked out
    rq          \* the request being served

vars == <<todos, tasks, todoSeq, taskSeq, pool, rq>>

\* ------------------------------------------------- storage: the two tables

\* owner varchar(120) UNIQUE NOT NULL: no other row holds this owner.
UniqueOwnerOff(T, pk, owner) == TRUE
UniqueOwnerOnInsert(T, pk, owner) ==
    (\A r \in T : r.todo_id # pk) => \A r \in T : r.owner # owner
UniqueOwner(T, pk, owner) == \A r \in T : r.todo_id # pk => r.owner # owner

\* An owner of 121 characters, and the length of an owner (the sample
\* owners have one character; "" is the empty string).
LongOwner == "<121 characters>"
StrLen(v) == IF v = "" THEN 0 ELSE IF v = LongOwner THEN 121 ELSE 1

\* owner varchar(120): a value of more characters is refused (it is not cut
\* short); NOT NULL refuses null, which the empty string is not.
FitsVarchar(v, n) == StrLen(v) <= n

\* todo_id int NOT NULL REFERENCES todos(todo_id): the parent row exists.
ForeignKeyOff(T, todo_id) == TRUE
ForeignKey(T, todo_id) == \E r \in T : r.todo_id = todo_id

\* ... ON DELETE CASCADE: the tasks left when todo `todo_id` is deleted.
OnDeleteKeep(K, todo_id) == K
OnDeleteCascade(K, todo_id) == {k \in K : k.todo_id # todo_id}

\* todo_id serial PRIMARY KEY: no row holds the key `new` yet.
PrimaryKeyFree(T, new) == \A r \in T : r.todo_id # new

\* REFERENCES todos(todo_id) with no ON UPDATE clause: the key of a todo that
\* tasks refer to cannot be changed.
Referenced(K, todo_id) == \E k \in K : k.todo_id = todo_id

\* The row of a table with primary key pk, as a set (empty: no such row).
TodoRows(T, pk) == {r \in T : r.todo_id = pk}
TaskRows(K, pk) == {k \in K : k.task_id = pk}

\* ORDER BY <pk> DESC: the order the statement does not ask for.
RECURSIVE SortTodosDescending(_)
SortTodosDescending(T) ==
    IF T = {} THEN <<>>
    ELSE LET m == CHOOSE r \in T : \A s \in T : r.todo_id >= s.todo_id
         IN <<m>> \o SortTodosDescending(T \ {m})

\* A table in ascending order of its primary key (ORDER BY <pk>).
RECURSIVE SortTodos(_)
SortTodos(T) ==
    IF T = {} THEN <<>>
    ELSE LET m == CHOOSE r \in T : \A s \in T : r.todo_id <= s.todo_id
         IN <<m>> \o SortTodos(T \ {m})

RECURSIVE SortTasks(_)
SortTasks(K) ==
    IF K = {} THEN <<>>
    ELSE LET m == CHOOSE k \in K : \A s \in K : k.task_id <= s.task_id
         IN <<m>> \o SortTasks(K \ {m})

\* LIMIT n
Limit(s, n) == IF Len(s) <= n THEN s ELSE SubSeq(s, 1, n)

\* ------------------------------------------------ domain types (pydantic)
PositiveInt(v) == v > 0
NonNegativeInt(v) == v > -1
PageLimitField(v) == v > 0 /\ v < MAX_PAGE_LIMIT

\* A value that is not a str (pydantic 2 does not coerce it to one).
NotStr == "<not-a-str>"
IsStr(v) == v # NotStr

Range(s) == {s[i] : i \in DOMAIN s}

\* A payload (request body, or the payload of create / update) is a record
\* of optional fields: owner, status, todo_id, brief (standing for the two
\* required strings of a task, brief and category), priority, contents, due,
\* created_at, updated_at, and the flag extra (the payload holds a key that
\* no model declares).
NoPayload ==
    [owner |-> None, status |-> None, todo_id |-> None, brief |-> None,
     priority |-> None, contents |-> None, due |-> None,
     created_at |-> None, updated_at |-> None, extra |-> FALSE]

\* NonEmptyUpdateMixin: at least one value of the raw payload is not None.
\* An undeclared key counts: it carries a value.
NonEmptySkipped(p) == TRUE
NonEmpty(p) ==
    ~(IsNone(p.owner) /\ IsNone(p.status) /\ IsNone(p.todo_id)
      /\ IsNone(p.brief) /\ IsNone(p.priority) /\ IsNone(p.contents)
      /\ ~Given(p.due) /\ IsNone(p.created_at) /\ IsNone(p.updated_at)
      /\ ~p.extra)

OptEnum(o, E) == IsNone(o) \/ Val(o) \in E
OptStr(o) == IsNone(o) \/ IsStr(Val(o))
OptPositive(o) == IsNone(o) \/ PositiveInt(Val(o))

\* extra="forbid": the payload names only fields the model declares.
ForbidExtra(p, fields) ==
    /\ ~p.extra
    /\ ("owner" \notin fields => IsNone(p.owner))
    /\ ("status" \notin fields => IsNone(p.status))
    /\ ("todo_id" \notin fields => IsNone(p.todo_id))
    /\ ("brief" \notin fields => IsNone(p.brief))
    /\ ("priority" \notin fields => IsNone(p.priority))
    /\ ("contents" \notin fields => IsNone(p.contents))
    /\ ("due" \notin fields => IsNone(p.due))
    /\ ("created_at" \notin fields => IsNone(p.created_at))
    /\ ("updated_at" \notin fields => IsNone(p.updated_at))

\* The fields CreateTask declares, and those the update models add.
TaskFields == {"brief", "todo_id", "status", "priority", "contents", "due"}
Timestamps == {"created_at", "updated_at"}

CreateTodo(p) ==
    /\ ForbidExtra(p, {"owner", "status"})
    /\ ~IsNone(p.owner) /\ IsStr(Val(p.owner))
    /\ OptEnum(p.status, TodoStatus)

UpdateTodo(p) ==
    /\ NonEmpty(p)
    /\ ForbidExtra(p, {"owner", "status"} \cup Timestamps)
    /\ OptStr(p.owner)
    /\ OptEnum(p.status, TodoStatus)

CreateTask(p) ==
    /\ ForbidExtra(p, TaskFields)
    /\ ~IsNone(p.brief) /\ IsStr(Val(p.brief))
    /\ ~IsNone(p.todo_id) /\ PositiveInt(Val(p.todo_id))
    /\ OptEnum(p.status, TaskStatus)
    /\ OptEnum(p.priority, TaskPriority)
    /\ OptStr(p.contents)

UpdateTask(p) ==
    /\ NonEmpty(p)
    /\ ForbidExtra(p, TaskFields \cup Timestamps)
    /\ OptStr(p.brief)
    /\ OptPositive(p.todo_id)
    /\ OptEnum(p.status, TaskStatus)
    /\ OptEnum(p.priority, TaskPriority)
    /\ OptStr(p.contents)

\* CreateTaskNoTodoId: todo_id is optional in the body (and dropped from it).
CreateTaskNoTodoId(p) ==
    /\ ForbidExtra(p, TaskFields)
    /\ ~IsNone(p.brief) /\ IsStr(Val(p.brief))
    /\ OptPositive(p.todo_id)
    /\ OptEnum(p.status, TaskStatus)
    /\ OptEnum(p.priority, TaskPriority)
    /\ OptStr(p.contents)

\* model_dump(exclude_none=True) of a validated CreateTask at the time `at`:
\* status and priority with their defaults, due with the value of its
\* default_factory (now + one day) when the key was left out, and no key
\* whose value is None.  (ModelDumpDueNow: a default of now.)
ModelDumpDueNow(p, at) ==
    [p EXCEPT !.status = IF IsNone(@) THEN Some("pending") ELSE @,
              !.priority = IF IsNone(@) THEN Some("low") ELSE @,
              !.due = IF IsNone(@) THEN Some(at)
                      ELSE IF @ = Some(Null) THEN None ELSE @]
ModelDump(p, at) ==
    [p EXCEPT !.status = IF IsNone(@) THEN Some("pending") ELSE @,
              !.priority = IF IsNone(@) THEN Some("low") ELSE @,
              !.due = IF IsNone(@) THEN Some(at + OneDay)
                      ELSE IF @ = Some(Null) THEN None ELSE @]

\* Output models: a row read from storage as the domain model sees it.
Task(k) ==
    /\ PositiveInt(k.task_id)
    /\ PositiveInt(k.todo_id)
    /\ k.status \in TaskStatus
    /\ k.priority \in TaskPriority
    /\ OptStr(k.contents)

Todo(r) ==
    /\ PositiveInt(r.todo_id)
    /\ IsStr(r.owner)
    /\ r.status \in TodoStatus
    /\ (IsNone(r.tasks) \/ \A i \in DOMAIN Val(r.tasks) : Task(Val(r.tasks)[i]))

\* ---------------------------------------------------- filters (dict -> list)
\* A filters dict is a function from column names to lists of values.
NoFilters == [c \in {} |-> <<>>]

\* todo_id: list[PositiveInt], status: list[<enum>], the rest: list[str] or
\* list[datetime]; a key the model does not declare is forbidden.
FilterValid(f, columns, statuses) ==
    /\ DOMAIN f \subseteq columns
    /\ \A c \in DOMAIN f :
        /\ (c \in {"todo_id", "task_id"} => \A v \in Range(f[c]) : PositiveInt(v))
        /\ (c = "status" => Range(f[c]) \subseteq statuses)

TodoFilterColumns == {"todo_id", "owner", "status", "created_at", "updated_at"}
TaskFilterColumns ==
    {"task_id", "todo_id", "brief", "category", "status", "priority", "due",
     "created_at", "updated_at"}

TodosFilter(f) == FilterValid(f, TodoFilterColumns, TodoStatus)
TasksFilter(f) == "todo_id" \in DOMAIN f /\ FilterValid(f, TaskFilterColumns, TaskStatus)

\* Query-string models of the handlers.  ListTasksQueryArgs declares no
\* todo_id, so that key is an undeclared one.
ListTodosQueryArgs(q) ==
    /\ ~q.extra
    /\ IsNone(q.prefetch_tasks)
    /\ (IsNone(q.limit) \/ PageLimitField(Val(q.limit)))
    /\ (IsNone(q.offset) \/ NonNegativeInt(Val(q.offset)))
    /\ FilterValid(q.filters, TodoFilterColumns, TodoStatus)

ListTasksQueryArgs(q) ==
    /\ ~q.extra
    /\ IsNone(q.prefetch_tasks)
    /\ (IsNone(q.limit) \/ PageLimitField(Val(q.limit)))
    /\ (IsNone(q.offset) \/ NonNegativeInt(Val(q.offset)))
    /\ FilterValid(q.filters, TaskFilterColumns \ {"todo_id"}, TaskStatus)

GetTodoQueryArgs(q) ==
    /\ ~q.extra
    /\ IsNone(q.limit) /\ IsNone(q.offset) /\ DOMAIN q.filters = {}
    /\ (IsNone(q.prefetch_tasks) \/ NonNegativeInt(Val(q.prefetch_tasks)))


\* --------------------------------------- service/schemas.py: input models
\* The keyword arguments of a service call: pk (todo_id of TodoService,
\* task_id of TaskService), prefetch_tasks, limit, offset, filters, payload
\* (the payload of update, or the keywords of create), each optional, and
\* the flag extra (a keyword that no input model declares).
NoKwargs ==
    [pk |-> None, prefetch_tasks |-> None, limit |-> None, offset |-> None,
     filters |-> None, payload |-> None, extra |-> FALSE]

OnlyKeys(kw, keys) ==
    /\ ~kw.extra
    /\ ("pk" \notin keys => IsNone(kw.pk))
    /\ ("prefetch_tasks" \notin keys => IsNone(kw.prefetch_tasks))
    /\ ("limit" \notin keys => IsNone(kw.limit))
    /\ ("offset" \notin keys => IsNone(kw.offset))
    /\ ("filters" \notin keys => IsNone(kw.filters))
    /\ ("payload" \notin keys => IsNone(kw.payload))

RequiredPk(kw) == ~IsNone(kw.pk) /\ PositiveInt(Val(kw.pk))

LimitOffsetQuery(kw) ==
    /\ (IsNone(kw.limit) \/ PageLimitField(Val(kw.limit)))
    /\ (IsNone(kw.offset) \/ NonNegativeInt(Val(kw.offset)))

GetTodoQuery(kw) ==
    /\ OnlyKeys(kw, {"pk", "prefetch_tasks"})
    /\ RequiredPk(kw)
    /\ (IsNone(kw.prefetch_tasks) \/ NonNegativeInt(Val(kw.prefetch_tasks)))

GetTodosQuery(kw) ==
    /\ OnlyKeys(kw, {"limit", "offset", "filters"})
    /\ LimitOffsetQuery(kw)
    /\ (IsNone(kw.filters) \/ TodosFilter(Val(kw.filters)))

UpdateTodoQuery(kw) ==
    /\ OnlyKeys(kw, {"pk", "payload"})
    /\ RequiredPk(kw)
    /\ ~IsNone(kw.payload) /\ UpdateTodo(Val(kw.payload))

DeleteTodoQuery(kw) == OnlyKeys(kw, {"pk"}) /\ RequiredPk(kw)

GetTaskQuery(kw) == OnlyKeys(kw, {"pk"}) /\ RequiredPk(kw)

GetTasksQuery(kw) ==
    /\ OnlyKeys(kw, {"limit", "offset", "filters"})
    /\ LimitOffsetQuery(kw)
    /\ (IsNone(kw.filters) \/ TasksFilter(Val(kw.filters)))

UpdateTaskQuery(kw) ==
    /\ OnlyKeys(kw, {"pk", "payload"})
    /\ RequiredPk(kw)
    /\ ~IsNone(kw.payload) /\ UpdateTask(Val(kw.payload))

DeleteTaskQuery(kw) == OnlyKeys(kw, {"pk"}) /\ RequiredPk(kw)

\* create(**payload): the keywords of the call are the payload's fields.
PayloadOf(kw) == IF IsNone(kw.payload) THEN NoPayload ELSE Val(kw.payload)
CreateTodoKwargs(kw) == OnlyKeys(kw, {"payload"}) /\ CreateTodo(PayloadOf(kw))
CreateTaskKwargs(kw) == OnlyKeys(kw, {"payload"}) /\ CreateTask(PayloadOf(kw))

\* The input model each service method is decorated with.
InputModelNone(svc, method, kw) == TRUE
InputModel(svc, method, kw) ==
    CASE svc = "todo" /\ method = "get_one" -> GetTodoQuery(kw)
      [] svc = "todo" /\ method = "get_many" -> GetTodosQuery(kw)
      [] svc = "todo" /\ method = "create" -> CreateTodoKwargs(kw)
      [] svc = "todo" /\ method = "update" -> UpdateTodoQuery(kw)
      [] svc = "todo" /\ method = "delete" -> DeleteTodoQuery(kw)
      [] svc = "task" /\ method = "get_one" -> GetTaskQuery(kw)
      [] svc = "task" /\ method = "get_many" -> GetTasksQuery(kw)
      [] svc = "task" /\ method = "create" -> CreateTaskKwargs(kw)
      [] svc = "task" /\ method = "update" -> UpdateTaskQuery(kw)
      [] svc = "task" /\ method = "delete" -> DeleteTaskQuery(kw)

\* The output model of each method, applied to what the repository returned
\* (res is not None).  delete is wrapped by validate_query: no output model.
OutputModelSkipItems(svc, method, res) ==
    CASE method = "delete" -> TRUE
      [] method = "get_many" -> Len(res) = 0 \/ (IF svc = "todo" THEN Todo(res[1]) ELSE Task(res[1]))
      [] OTHER -> IF svc = "todo" THEN Todo(res) ELSE Task(res)
OutputModel(svc, method, res) ==
    CASE method = "delete" -> TRUE
      [] method = "get_many" ->
            \A i \in DOMAIN res : IF svc = "todo" THEN Todo(res[i]) ELSE Task(res[i])
      [] OTHER -> IF svc = "todo" THEN Todo(res) ELSE Task(res)


\* --------------------------------------------------- data/repository.py
\* Every operation returns [exc, res, todos, tasks]: the exception raised
\* ("" when none), the value returned and the two tables afterwards.
Outcome(exc, res, T, K) == [exc |-> exc, res |-> res, todos |-> T, tasks |-> K]

\* TodoRepository._create_row: a todos record with the tasks attached.
TodoRow(r, attached) ==
    [todo_id |-> r.todo_id, owner |-> r.owner, status |-> r.status,
     created_at |-> r.created_at, updated_at |-> r.updated_at,
     tasks |-> attached]

\* pg_type_casts: the columns of each table that have a cast.
TypeCast(table) ==
    IF table = "todos"
    THEN {"owner", "todo_id", "status", "created_at", "udpated_at"}
    ELSE {"brief", "contents", "category", "task_id", "todo_id", "status",
          "priority", "due", "created_at", "udpated_at"}

\* (variants: the offset row included; one matching column is enough)
MatchesFromOffset(row, pk, offset, f) ==
    /\ row[pk] >= offset
    /\ \A c \in DOMAIN f : c \in DOMAIN row /\ row[c] \in Range(f[c])
MatchesAnyColumn(row, pk, offset, f) ==
    /\ row[pk] > offset
    /\ \E c \in DOMAIN f : c \in DOMAIN row /\ row[c] \in Range(f[c])

\* WHERE <pk> > $2 AND col = any (values ...) AND ...
Matches(row, pk, offset, f) ==
    /\ row[pk] > offset
    /\ \A c \in DOMAIN f : c \in DOMAIN row /\ row[c] \in Range(f[c])

\* The order in which a validated filters dict lists its columns: the order
\* in which TodosFilter / TasksFilter declare them (model_dump keeps it).
FilterOrder(table) ==
    IF table = "todos"
    THEN <<"todo_id", "owner", "status", "created_at", "updated_at">>
    ELSE <<"task_id", "todo_id", "brief", "category", "status", "priority",
           "due", "created_at", "updated_at">>

\* Repository._prepare_query_args(query_args, i): one part
\* "<col> = any (values ($i), ($i+1), ...)" for every item of the dict, the
\* placeholders numbered on from i; the parts are joined with AND.  A part
\* is the record of its column and of the numbers of its placeholders.
RECURSIVE PrepareQueryArgs(_, _, _)
PrepareQueryArgs(f, cols, i) ==
    IF cols = <<>> THEN <<>>
    ELSE IF Head(cols) \notin DOMAIN f THEN PrepareQueryArgs(f, Tail(cols), i)
    ELSE LET vals == f[Head(cols)]
         IN <<[col |-> Head(cols), subs |-> [j \in 1 .. Len(vals) |-> i + j - 1]]>>
            \o PrepareQueryArgs(f, Tail(cols), i + Len(vals))

\* args = chain.from_iterable(filters.values()): the values bound to the
\* statement after limit and offset.
RECURSIVE ChainValues(_, _)
ChainValues(f, cols) ==
    IF cols = <<>> THEN <<>>
    ELSE IF Head(cols) \notin DOMAIN f THEN ChainValues(f, Tail(cols))
    ELSE f[Head(cols)] \o ChainValues(f, Tail(cols))

\* Repository._fetch, as fetch_many calls it (default ordering).  A filter
\* column without a cast raises KeyError before any statement is sent; a
\* part without placeholders, "<col> = any (values )", makes a statement
\* storage cannot parse.
FetchMany(table, T, K, limit, offset, f) ==
    IF \E c \in DOMAIN f : c \notin TypeCast(table)
    THEN Outcome("KeyError", None, T, K)
    ELSE IF \E part \in Range(PrepareQueryArgs(f, FilterOrder(table), 3)) :
                part.subs = <<>>
    THEN Outcome("PostgresSyntaxError", None, T, K)
    ELSE IF table = "todos"
    THEN LET hit == {TodoRow(r, None) : r \in {x \in T : Matches(x, "todo_id", offset, f)}}
         IN Outcome("", Some(Limit(SortTodos(hit), limit)), T, K)
    ELSE LET hit == {k \in K : Matches(k, "task_id", offset, f)}
         IN Outcome("", Some(Limit(SortTasks(hit), limit)), T, K)

\* ORDER BY <order_by>: a term names a column and a direction ("todo_id DESC"
\* is [col |-> "todo_id", desc |-> TRUE]).  The place of a value in the order
\* of its column: an enum sorts in the order CREATE TYPE lists its members,
\* an owner by collation, a key or a time by its number.
Term(col, desc) == [col |-> col, desc |-> desc]

SortKey(row, col) ==
    CASE col = "owner" -> (IF row.owner = "a" THEN 1 ELSE 2)
      [] col = "status" ->
            (CASE row.status \in {"active", "pending"} -> 1
               [] row.status \in {"inactive", "complete"} -> 2
               [] OTHER -> 3)
      [] col = "priority" ->
            (CASE row.priority = "low" -> 1 [] row.priority = "medium" -> 2 [] OTHER -> 3)
      [] OTHER -> row[col]

\* -1, 0, 1: r1 sorts before, with, after r2.
RECURSIVE Compare(_, _, _)
Compare(r1, r2, order) ==
    IF order = <<>> THEN 0
    ELSE LET a == SortKey(r1, Head(order).col)
             b == SortKey(r2, Head(order).col)
         IN IF a = b THEN Compare(r1, r2, Tail(order))
            ELSE IF (a < b) # Head(order).desc THEN -1 ELSE 1

\* The sequences storage may return for the rows S under an ORDER BY: rows
\* that sort together come in any order.
Orderings(S, order) ==
    {s \in [1 .. Cardinality(S) -> S] :
        /\ \A i \in DOMAIN s, j \in DOMAIN s : i # j => s[i] # s[j]
        /\ \A i \in DOMAIN s, j \in DOMAIN s :
                i < j => Compare(s[i], s[j], order) <= 0}

\* OFFSET n
Skip(s, n) == IF Len(s) <= n THEN <<>> ELSE SubSeq(s, n + 1, Len(s))

\* (a variant built on select_order_limit_offset: LIMIT $1 OFFSET $2)
FetchOrderedSkipsRows(table, T, K, limit, offset, f, order_by) ==
    LET pk == IF table = "todos" THEN "todo_id" ELSE "task_id"
        order == IF order_by = <<>> THEN <<Term(pk, FALSE)>> ELSE order_by
        rows == IF table = "todos" THEN {TodoRow(r, None) : r \in T} ELSE K
        hit == {r \in rows : Matches(r, pk, -1, f)}
    IN IF FetchMany(table, T, K, limit, offset, f).exc # ""
       THEN {FetchMany(table, T, K, limit, offset, f)}
       ELSE {Outcome("", Some(Limit(Skip(s, offset), limit)), T, K) :
                s \in Orderings(hit, order)}

\* Repository._fetch with select_order_by: `if not select_order_by:` puts the
\* primary key in its place; WHERE <pk> > $2 stays as it is, whatever the
\* ordering; ORDER BY <order_by> LIMIT $1.  The set of the outcomes storage
\* may give.
FetchOrdered(table, T, K, limit, offset, f, order_by) ==
    LET pk == IF table = "todos" THEN "todo_id" ELSE "task_id"
        order == IF order_by = <<>> THEN <<Term(pk, FALSE)>> ELSE order_by
        rows == IF table = "todos" THEN {TodoRow(r, None) : r \in T} ELSE K
        hit == {r \in rows : Matches(r, pk, offset, f)}
    IN IF FetchMany(table, T, K, limit, offset, f).exc # ""
       THEN {FetchMany(table, T, K, limit, offset, f)}
       ELSE {Outcome("", Some(Limit(s, limit)), T, K) : s \in Orderings(hit, order)}

\* Repository.fetch_one (TaskRepository), and the first statement of
\* TodoRepository.fetch_one.
FetchOne(table, T, K, pk) ==
    IF table = "todos"
    THEN IF TodoRows(T, pk) = {} THEN Outcome("", None, T, K)
         ELSE Outcome("", Some(TodoRow(CHOOSE r \in TodoRows(T, pk) : TRUE, None)), T, K)
    ELSE IF TaskRows(K, pk) = {} THEN Outcome("", None, T, K)
         ELSE Outcome("", Some(CHOOSE k \in TaskRows(K, pk) : TRUE), T, K)

\* prefetch_tasks_query: WHERE todo_id = $1 ORDER BY task_id LIMIT $2
PrefetchTasks(K, todo_id, n) ==
    Limit(SortTasks({k \in K : k.todo_id = todo_id}), n)

\* TodoRepository.fetch_one after its second statement: `if tasks:` turns a
\* non-empty list into a generator and leaves an empty one as it is.
AttachTasksIfAny(row, fetched) ==
    [row EXCEPT !.tasks = IF Len(fetched) = 0 THEN None ELSE Some(fetched)]
AttachTasks(row, fetched) == [row EXCEPT !.tasks = Some(fetched)]

\* (a variant that stores the default status whatever the payload says)
InsertOneStoresDefault(table, T, K, id, p, now) ==
    IF table = "todos"
    THEN LET new == [todo_id |-> id, owner |-> Val(p.owner),
                     status |-> IF IsNone(p.status) THEN "active" ELSE Val(p.status),
                     created_at |-> now, updated_at |-> now]
             kept == [new EXCEPT !.status = "active"]
         IN IF UniqueOwner(T, id, new.owner)
            THEN Outcome("", Some(TodoRow(new, None)), T \cup {kept}, K)
            ELSE Outcome("UniqueViolationError", None, T, K)
    ELSE IF IsNone(p.due) THEN Outcome("TypeError", None, T, K)
    ELSE LET new == [task_id |-> id, todo_id |-> Val(p.todo_id),
                     status |-> IF IsNone(p.status) THEN "pending" ELSE Val(p.status),
                     priority |-> IF IsNone(p.priority) THEN "low" ELSE Val(p.priority),
                     contents |-> p.contents,
                     due |-> Val(p.due),
                     created_at |-> now, updated_at |-> now]
             kept == [new EXCEPT !.status = "pending"]
         IN IF ForeignKey(T, new.todo_id)
            THEN Outcome("", Some(new), T, K \cup {kept})
            ELSE Outcome("ForeignKeyViolationError", None, T, K)

\* Repository.insert_one.  id is the value the serial column drew, now what
\* NOW() / CURRENT_TIMESTAMP gives the two columns that default to it.  p holds
\* the keywords of the call; a None field is one that was not passed and is
\* left to the default of the repository's signature (TaskRepository.insert_one
\* has none for `due`: the call raises TypeError before any statement).
InsertOne(table, T, K, id, p, now) ==
    IF table = "todos"
    THEN LET new == [todo_id |-> id, owner |-> Val(p.owner),
                     status |-> IF IsNone(p.status) THEN "active" ELSE Val(p.status),
                     created_at |-> now, updated_at |-> now]
         IN IF ~FitsVarchar(new.owner, 120)
            THEN Outcome("StringDataRightTruncationError", None, T, K)
            ELSE IF UniqueOwner(T, id, new.owner)
            THEN Outcome("", Some(TodoRow(new, None)), T \cup {new}, K)
            ELSE Outcome("UniqueViolationError", None, T, K)
    ELSE IF IsNone(p.due) THEN Outcome("TypeError", None, T, K)
    ELSE LET new == [task_id |-> id, todo_id |-> Val(p.todo_id),
                     status |-> IF IsNone(p.status) THEN "pending" ELSE Val(p.status),
                     priority |-> IF IsNone(p.priority) THEN "low" ELSE Val(p.priority),
                     contents |-> p.contents,
                     due |-> Val(p.due),
                     created_at |-> now, updated_at |-> now]
         IN IF ForeignKey(T, new.todo_id)
            THEN Outcome("", Some(new), T, K \cup {new})
            ELSE Outcome("ForeignKeyViolationError", None, T, K)

\* (a variant with a rule: an inactive todo and a complete task keep their
\* status)
UpdateOneOneWay(table, T, K, pk, p) ==
    IF table = "todos"
    THEN IF TodoRows(T, pk) = {} THEN Outcome("", None, T, K)
         ELSE LET old == CHOOSE r \in TodoRows(T, pk) : TRUE
                  new == [todo_id |-> pk,
                          owner |-> IF IsNone(p.owner) THEN old.owner ELSE Val(p.owner),
                          status |-> IF IsNone(p.status) \/ old.status = "inactive" THEN old.status
                                    ELSE Val(p.status),
                          created_at |-> IF IsNone(p.created_at) THEN old.created_at
                                         ELSE Val(p.created_at),
                          updated_at |-> IF IsNone(p.updated_at) THEN old.updated_at
                                         ELSE Val(p.updated_at)]
              IN IF UniqueOwner(T, pk, new.owner)
                 THEN Outcome("", Some(TodoRow(new, None)), (T \ {old}) \cup {new}, K)
                 ELSE Outcome("UniqueViolationError", None, T, K)
    ELSE IF TaskRows(K, pk) = {} THEN Outcome("", None, T, K)
         ELSE LET old == CHOOSE k \in TaskRows(K, pk) : TRUE
                  new == [task_id |-> pk,
                          todo_id |-> IF IsNone(p.todo_id) THEN old.todo_id ELSE Val(p.todo_id),
                          status |-> IF IsNone(p.status) \/ old.status = "complete" THEN old.status
                                     ELSE Val(p.status),
                          priority |-> IF IsNone(p.priority) THEN old.priority
                                       ELSE Val(p.priority),
                          contents |-> IF IsNone(p.contents) THEN old.contents
                                       ELSE p.contents,
                          due |-> IF Given(p.due) THEN Val(p.due) ELSE old.due,
                          created_at |-> IF IsNone(p.created_at) THEN old.created_at
                                         ELSE Val(p.created_at),
                          updated_at |-> IF IsNone(p.updated_at) THEN old.updated_at
                                         ELSE Val(p.updated_at)]
              IN IF ForeignKey(T, new.todo_id)
                 THEN Outcome("", Some(new), T, (K \ {old}) \cup {new})
                 ELSE Outcome("ForeignKeyViolationError", None, T, K)

\* (a variant with a trigger that moves updated_at on every update)
UpdateOneTouches(table, T, K, pk, p) ==
    IF table = "todos"
    THEN IF TodoRows(T, pk) = {} THEN Outcome("", None, T, K)
         ELSE LET old == CHOOSE r \in TodoRows(T, pk) : TRUE
                  new == [todo_id |-> pk,
                          owner |-> IF IsNone(p.owner) THEN old.owner ELSE Val(p.owner),
                          status |-> IF IsNone(p.status) THEN old.status ELSE Val(p.status),
                          created_at |-> IF IsNone(p.created_at) THEN old.created_at
                                         ELSE Val(p.created_at),
                          updated_at |-> IF IsNone(p.updated_at) THEN old.updated_at + 1
                                         ELSE Val(p.updated_at)]
              IN IF ~FitsVarchar(new.owner, 120)
                 THEN Outcome("StringDataRightTruncationError", None, T, K)
                 ELSE IF UniqueOwner(T, pk, new.owner)
                 THEN Outcome("", Some(TodoRow(new, None)), (T \ {old}) \cup {new}, K)
                 ELSE Outcome("UniqueViolationError", None, T, K)
    ELSE IF TaskRows(K, pk) = {} THEN Outcome("", None, T, K)
         ELSE LET old == CHOOSE k \in TaskRows(K, pk) : TRUE
                  new == [task_id |-> pk,
                          todo_id |-> IF IsNone(p.todo_id) THEN old.todo_id ELSE Val(p.todo_id),
                          status |-> IF IsNone(p.status) THEN old.status ELSE Val(p.status),
                          priority |-> IF IsNone(p.priority) THEN old.priority
                                       ELSE Val(p.priority),
                          contents |-> IF IsNone(p.contents) THEN old.contents
                                       ELSE p.contents,
                          due |-> IF Given(p.due) THEN Val(p.due) ELSE old.due,
                          created_at |-> IF IsNone(p.created_at) THEN old.created_at
                                         ELSE Val(p.created_at),
                          updated_at |-> IF IsNone(p.updated_at) THEN old.updated_at + 1
                                         ELSE Val(p.updated_at)]
              IN IF ForeignKey(T, new.todo_id)
                 THEN Outcome("", Some(new), T, (K \ {old}) \cup {new})
                 ELSE Outcome("ForeignKeyViolationError", None, T, K)

\* Repository.update_one: UPDATE ... SET <the fields of p that are not None>
\* WHERE <pk> = $1 RETURNING *.  No row: None, and no constraint is checked.
\* The schema has no trigger: updated_at changes when it is named only.
UpdateOne(table, T, K, pk, p) ==
    IF table = "todos"
    THEN IF TodoRows(T, pk) = {} THEN Outcome("", None, T, K)
         ELSE LET old == CHOOSE r \in TodoRows(T, pk) : TRUE
                  new == [todo_id |-> pk,
                          owner |-> IF IsNone(p.owner) THEN old.owner ELSE Val(p.owner),
                          status |-> IF IsNone(p.status) THEN old.status ELSE Val(p.status),
                          created_at |-> IF IsNone(p.created_at) THEN old.created_at
                                         ELSE Val(p.created_at),
                          updated_at |-> IF IsNone(p.updated_at) THEN old.updated_at
                                         ELSE Val(p.updated_at)]
              IN IF ~FitsVarchar(new.owner, 120)
                 THEN Outcome("StringDataRightTruncationError", None, T, K)
                 ELSE IF UniqueOwner(T, pk, new.owner)
                 THEN Outcome("", Some(TodoRow(new, None)), (T \ {old}) \cup {new}, K)
                 ELSE Outcome("UniqueViolationError", None, T, K)
    ELSE IF TaskRows(K, pk) = {} THEN Outcome("", None, T, K)
         ELSE LET old == CHOOSE k \in TaskRows(K, pk) : TRUE
                  new == [task_id |-> pk,
                          todo_id |-> IF IsNone(p.todo_id) THEN old.todo_id ELSE Val(p.todo_id),
                          status |-> IF IsNone(p.status) THEN old.status ELSE Val(p.status),
                          priority |-> IF IsNone(p.priority) THEN old.priority
                                       ELSE Val(p.priority),
                          contents |-> IF IsNone(p.contents) THEN old.contents
                                       ELSE p.contents,
                          due |-> IF Given(p.due) THEN Val(p.due) ELSE old.due,
                          created_at |-> IF IsNone(p.created_at) THEN old.created_at
                                         ELSE Val(p.created_at),
                          updated_at |-> IF IsNone(p.updated_at) THEN old.updated_at
                                         ELSE Val(p.updated_at)]
              IN IF ForeignKey(T, new.todo_id)
                 THEN Outcome("", Some(new), T, (K \ {old}) \cup {new})
                 ELSE Outcome("ForeignKeyViolationError", None, T, K)

\* (a variant that returns the key and leaves the row where it is)
DeleteOneKeepsRow(table, T, K, pk) ==
    IF table = "todos"
    THEN IF TodoRows(T, pk) = {} THEN Outcome("", None, T, K)
         ELSE Outcome("", Some(pk), T, K)
    ELSE IF TaskRows(K, pk) = {} THEN Outcome("", None, T, K)
         ELSE Outcome("", Some(pk), T, K)

\* Repository.delete_one: DELETE ... WHERE <pk> = $1 RETURNING <pk>.
DeleteOne(table, T, K, pk) ==
    IF table = "todos"
    THEN IF TodoRows(T, pk) = {} THEN Outcome("", None, T, K)
         ELSE Outcome("", Some(pk), T \ TodoRows(T, pk), OnDeleteCascade(K, pk))
    ELSE IF TaskRows(K, pk) = {} THEN Outcome("", None, T, K)
         ELSE Outcome("", Some(pk), T, K \ TaskRows(K, pk))


\* ------------------------------------------------------------ the request
\* main.py: app.debug = True, so Quart re-raises an exception no error
\* handler takes instead of turning it into a response itself.
AppDebug == TRUE

NoQuery ==
    [limit |-> None, offset |-> None, prefetch_tasks |-> None,
     filters |-> NoFilters, extra |-> FALSE]

Idle ==
    [pc |-> "idle", via |-> "-", handler |-> "-", svc |-> "-", method |-> "-",
     todo_id |-> None, task_id |-> None, query |-> NoQuery, body |-> NoPayload,
     kw |-> NoKwargs, trace |-> <<>>, exc |-> "", status |-> 0, res |-> None,
     held |-> FALSE, message |-> <<>>, at |-> 0, order_by |-> <<>>,
     seen |-> {}]

Table(svc) == IF svc = "todo" THEN "todos" ELSE "tasks"

\* Exceptions that are werkzeug HTTPExceptions: Quart answers them itself
\* (quart-schema's validation errors are BadRequest, NotFound is 404).
HttpExceptions ==
    {"RequestSchemaValidationError", "QuerystringValidationError", "NotFound"}

\* Blueprint.after_request functions run when the request ends in a response
\* made by the handler or by an error handler; an exception that Quart
\* re-raises (debug) leaves without them.
AfterRequestRuns(exc) == exc = "" \/ exc \in HttpExceptions \/ ~AppDebug

\* The status code the client sees.
StatusOf(exc, normal) ==
    IF exc = "" THEN normal
    ELSE IF exc \in {"RequestSchemaValidationError", "QuerystringValidationError"} THEN 400
    ELSE IF exc = "NotFound" THEN 404
    ELSE 500

\* The handler's own part after the service call returned `res`:
\* `if not todo: raise NotFound(...)`, and the status of the route.
HandlerRaisesNothing(method, res) == ""
HandlerRaises(method, res) ==
    IF method \in {"get_one", "update"} /\ IsNone(res) THEN "NotFound"
    ELSE IF method = "delete" /\ res = Some(FALSE) THEN "NotFound"
    ELSE ""

\* raise NotFound(f"Todo with id {todo_id} not found") and, in web/api/task.py,
\* NotFound(f"Task with id {task_id} or Todo list with id {todo_id} not found"):
\* the description, as the sequence of its parts.
NotFoundDescription(r) ==
    IF r.svc = "todo"
    THEN <<"Todo with id", Val(r.todo_id), "not found">>
    ELSE <<"Task with id", Val(r.task_id), "or Todo list with id", Val(r.todo_id),
           "not found">>

\* @bp.errorhandler(404) of each blueprint: the description of the error
\* when it has one, the blueprint's own text otherwise.
todo_not_found(svc, description) ==
    IF ~IsNone(description) THEN Val(description)
    ELSE IF svc = "todo" THEN <<"Todo not found">> ELSE <<"Task not found">>

SuccessStatus(method) ==
    CASE method = "create" -> 201
      [] method = "delete" -> 204
      [] OTHER -> 200

\* (a variant in which get_task answers 404 for a task of another todo)
EndedChecksTodo(r, exc, res, trace, released) ==
    LET raised == IF exc # "" \/ r.via # "http" THEN exc
                  ELSE IF /\ r.handler = "get_task" /\ ~IsNone(res)
                          /\ Val(res).todo_id # Val(r.todo_id)
                  THEN "NotFound"
                  ELSE HandlerRaises(r.method, res)
    IN [r EXCEPT !.pc = "done", !.exc = raised, !.res = res, !.trace = trace,
                 !.status = IF r.via = "http"
                            THEN StatusOf(raised, SuccessStatus(r.method)) ELSE 0,
                 !.held = r.held /\ ~released /\ ~AfterRequestRuns(raised),
                 !.message = IF r.via = "http" /\ raised = "NotFound"
                             THEN todo_not_found(r.svc, Some(NotFoundDescription(r)))
                             ELSE <<>>]

\* The request ends: exc is what left the service call ("" when it returned
\* res), released tells whether ConnectionManager gave the connection back.
\* release_con gives it back when after_request runs.
Ended(r, exc, res, trace, released) ==
    LET raised == IF exc # "" \/ r.via # "http" THEN exc
                  ELSE HandlerRaises(r.method, res)
    IN [r EXCEPT !.pc = "done", !.exc = raised, !.res = res, !.trace = trace,
                 !.status = IF r.via = "http"
                            THEN StatusOf(raised, SuccessStatus(r.method)) ELSE 0,
                 !.held = r.held /\ ~released /\ ~AfterRequestRuns(raised),
                 !.message = IF r.via = "http" /\ raised = "NotFound"
                             THEN todo_not_found(r.svc, Some(NotFoundDescription(r)))
                             ELSE <<>>]

\* validate_input_output / validate_query after the wrapped call returned
\* or raised: an exception passes through, None is returned as it is, any
\* other result is validated against the output model.
AfterCallValidatesNone(r, out, released) ==
    IF out.exc # "" THEN Ended(r, out.exc, None, r.trace \o <<"call">>, released)
    ELSE IF r.method = "delete"
    THEN Ended(r, "", Some(~IsNone(out.res)), r.trace \o <<"call">>, released)
    ELSE IF ~IsNone(out.res) /\ OutputModel(r.svc, r.method, Val(out.res))
    THEN Ended(r, "", out.res, r.trace \o <<"call", "output">>, released)
    ELSE Ended(r, "BadResponse", None, r.trace \o <<"call", "output">>, released)
AfterCall(r, out, released) ==
    IF out.exc # "" THEN Ended(r, out.exc, None, r.trace \o <<"call">>, released)
    ELSE IF r.method = "delete"
    THEN Ended(r, "", Some(~IsNone(out.res)), r.trace \o <<"call">>, released)
    ELSE IF IsNone(out.res) THEN Ended(r, "", None, r.trace \o <<"call">>, released)
    ELSE IF OutputModel(r.svc, r.method, Val(out.res))
    THEN Ended(r, "", out.res, r.trace \o <<"call", "output">>, released)
    ELSE Ended(r, "BadResponse", None, r.trace \o <<"call", "output">>, released)

\* The wrapper's first step: the keyword arguments against the input model.
\* A failure raises BadRequest and the wrapped method is not called.
Enter(r) ==
    IF InputModel(r.svc, r.method, r.kw)
    THEN [r EXCEPT !.pc = "repo", !.trace = <<"input">>]
    ELSE Ended(r, "BadRequest", None, <<"input">>, FALSE)

\* A request as it reaches a handler: before_request has acquired the
\* connection.
Arrived(handler, svc, method, todo_id, task_id, query, body) ==
    [Idle EXCEPT !.via = "http", !.handler = handler, !.svc = svc,
                 !.method = method, !.todo_id = todo_id, !.task_id = task_id,
                 !.query = query, !.body = body, !.held = TRUE]

\* One handler run up to its first statement on storage.  schemaOk: the
\* quart-schema decorator accepted the request; kw: the keyword arguments
\* the handler body passes to the service.
Received(r, schemaOk, schemaExc, kw) ==
    IF schemaOk THEN Enter([r EXCEPT !.kw = kw])
    ELSE Ended(r, schemaExc, None, <<>>, FALSE)

Handle(r, schemaOk, schemaExc, kw) ==
    /\ pool < PoolMax
    /\ rq' = Received(r, schemaOk, schemaExc, kw)
    /\ pool' = IF rq'.held THEN pool + 1 ELSE pool
    /\ UNCHANGED <<todos, tasks, todoSeq, taskSeq>>


\* ------------------------------------------------------- inputs of the model
PathTodoIds == 0 .. MaxTodoId
PathTaskIds == 0 .. MaxTaskId
\* The routes of one task take the todo_id of the path and do not use it.
ItemTodoIds == 1 .. MaxTodoId

Opt(S) == {None} \cup {Some(x) : x \in S}

Payload(o, s, t, b, e) ==
    [NoPayload EXCEPT !.owner = o, !.status = s, !.todo_id = t, !.brief = b,
                      !.extra = e]

\* The body of a task with its required fields and the optional ones given.
TaskBody(s, pr, c, d) ==
    [NoPayload EXCEPT !.brief = Some("x"), !.status = s, !.priority = pr,
                      !.contents = c, !.due = d]

TodoBodies ==
    {Payload(o, s, None, None, FALSE) : o \in Opt(Owners), s \in Opt(TodoStatus)}
    \cup {Payload(Some("a"), Some(BadEnum), None, None, FALSE),
          Payload(Some(NotStr), None, None, None, FALSE),
          Payload(None, None, None, None, TRUE)}

TaskBodies ==
    {Payload(None, s, t, b, FALSE) :
        s \in Opt({"complete"}), t \in Opt({MaxTodoId}), b \in Opt({"x"})}
    \cup {Payload(None, Some(BadEnum), None, Some("x"), FALSE),
          Payload(None, None, Some(0), Some("x"), FALSE),
          Payload(None, None, None, Some("x"), TRUE)}

Query(l, o, pf, f, e) ==
    [limit |-> l, offset |-> o, prefetch_tasks |-> pf, filters |-> f, extra |-> e]

OneFilter(c, vals) == [x \in {c} |-> vals]

TodoQueries ==
    {Query(l, o, None, NoFilters, FALSE) : l \in Opt({1}), o \in Opt({1})}
    \cup {Query(None, None, None, f, FALSE) :
            f \in {OneFilter("status", <<"active">>), OneFilter("updated_at", <<"t">>)}}
    \cup {Query(Some(0), None, None, NoFilters, FALSE),
          Query(Some(MAX_PAGE_LIMIT), None, None, NoFilters, FALSE),
          Query(None, Some(-1), None, NoFilters, FALSE),
          Query(None, None, None, OneFilter("status", <<BadEnum>>), FALSE),
          Query(None, None, None, NoFilters, TRUE)}

TaskQueries ==
    {Query(l, o, None, NoFilters, FALSE) : l \in Opt({1}), o \in Opt({1})}
    \cup {Query(None, None, None, f, FALSE) :
            f \in {OneFilter("status", <<"complete">>), OneFilter("updated_at", <<"t">>)}}
    \cup {Query(None, None, None, OneFilter("todo_id", <<t>>), FALSE) :
            t \in 1 .. MaxTodoId}
    \cup {Query(Some(0), None, None, NoFilters, FALSE),
          Query(None, None, None, OneFilter("status", <<BadEnum>>), FALSE),
          Query(None, None, None, NoFilters, TRUE)}

GetTodoQueries ==
    {Query(None, None, pf, NoFilters, FALSE) : pf \in Opt(0 .. MaxTaskId) \cup {Some(-1)}}

\* ------------------------------------------------------ web/api/todo.py
\* CommonQueryArgs.to_service_query_schema: limit and offset with their
\* defaults, and the filters that are not None.
ToServiceQuerySchema(q) ==
    [NoKwargs EXCEPT
        !.limit = IF IsNone(q.limit) THEN Some(DEFAULT_PAGE_LIMIT) ELSE q.limit,
        !.offset = IF IsNone(q.offset) THEN Some(0) ELSE q.offset,
        !.filters = Some(q.filters)]

list_todos(q) ==
    /\ rq.pc = "idle"
    /\ Handle(Arrived("list_todos", "todo", "get_many", None, None, q, NoPayload),
           ListTodosQueryArgs(q), "QuerystringValidationError",
           ToServiceQuerySchema(q))

add_todo(b) ==
    /\ rq.pc = "idle"
    /\ Handle(Arrived("add_todo", "todo", "create", None, None, NoQuery, b),
           CreateTodo(b), "RequestSchemaValidationError",
           [NoKwargs EXCEPT !.payload = Some(b)])

get_todo(id, q) ==
    /\ rq.pc = "idle"
    /\ Handle(Arrived("get_todo", "todo", "get_one", Some(id), None, q, NoPayload),
           GetTodoQueryArgs(q), "QuerystringValidationError",
           [NoKwargs EXCEPT
               !.pk = Some(id),
               !.prefetch_tasks = IF IsNone(q.prefetch_tasks) THEN Some(0)
                                  ELSE q.prefetch_tasks])

update_todo(id, b) ==
    /\ rq.pc = "idle"
    /\ Handle(Arrived("update_todo", "todo", "update", Some(id), None, NoQuery, b),
           UpdateTodo(b), "RequestSchemaValidationError",
           [NoKwargs EXCEPT !.pk = Some(id), !.payload = Some(b)])

delete_todo(id) ==
    /\ rq.pc = "idle"
    /\ Handle(Arrived("delete_todo", "todo", "delete", Some(id), None, NoQuery, NoPayload),
           TRUE, "",
           [NoKwargs EXCEPT !.pk = Some(id)])

\* ------------------------------------------------------ web/api/task.py
\* query_args["filters"].update(todo_id=[todo_id])
ScopeFiltersNot(kw, todo_id) == kw
ScopeFilters(kw, todo_id) ==
    [kw EXCEPT !.filters =
        Some([c \in DOMAIN Val(kw.filters) \cup {"todo_id"} |->
                IF c = "todo_id" THEN <<todo_id>> ELSE Val(kw.filters)[c]])]

list_tasks(id, q) ==
    /\ rq.pc = "idle"
    /\ Handle(Arrived("list_tasks", "task", "get_many", Some(id), None, q, NoPayload),
           ListTasksQueryArgs(q), "QuerystringValidationError",
           ScopeFilters(ToServiceQuerySchema(q), id))

\* data.model_dump(exclude_none=True), todo_id=todo_id: the body's own
\* todo_id is excluded from the dump, the path's is passed.
\* t: what datetime.now() returns while the body is validated.
AddTask(id, b, t) ==
    Handle([Arrived("add_task", "task", "create", Some(id), None, NoQuery, b)
                EXCEPT !.at = t],
           CreateTaskNoTodoId(b), "RequestSchemaValidationError",
           [NoKwargs EXCEPT
               !.payload = Some([ModelDump(b, t) EXCEPT !.todo_id = Some(id)])])

\* In Spec every request reads the clock at 0.
add_task(id, b) ==
    /\ rq.pc = "idle"
    /\ AddTask(id, b, 0)

get_task(id, tk) ==
    /\ rq.pc = "idle"
    /\ Handle(Arrived("get_task", "task", "get_one", Some(id), Some(tk), NoQuery, NoPayload),
           TRUE, "",
           [NoKwargs EXCEPT !.pk = Some(tk)])

update_task(id, tk, b) ==
    /\ rq.pc = "idle"
    /\ Handle(Arrived("update_task", "task", "update", Some(id), Some(tk), NoQuery, b),
           UpdateTask(b), "RequestSchemaValidationError",
           [NoKwargs EXCEPT !.pk = Some(tk), !.payload = Some(b)])

delete_task(id, tk) ==
    /\ rq.pc = "idle"
    /\ Handle(Arrived("delete_task", "task", "delete", Some(id), Some(tk), NoQuery, NoPayload),
           TRUE, "",
           [NoKwargs EXCEPT !.pk = Some(tk)])


\* ---------------------------------------------------- service, called directly
\* Keyword arguments no handler passes: a caller of the service itself.
Kwargs(pk, pf, l, o, f, p, e) ==
    [pk |-> pk, prefetch_tasks |-> pf, limit |-> l, offset |-> o,
     filters |-> f, payload |-> p, extra |-> e]

\* filters={"todo_id": [1, MaxTodoId], "status": ["pending"]}
TwoFilters ==
    [c \in {"todo_id", "status"} |->
        IF c = "todo_id" THEN <<1, MaxTodoId>> ELSE <<"pending">>]

\* filters={"todo_id": [1], "status": []}
EmptyListFilters ==
    [c \in {"todo_id", "status"} |-> IF c = "todo_id" THEN <<1>> ELSE <<>>]

ServiceCalls ==
    {<<svc, "get_one", kw>> : svc \in {"todo", "task"},
        kw \in {Kwargs(None, None, None, None, None, None, FALSE),
                Kwargs(Some(1), None, None, None, None, None, FALSE),
                Kwargs(Some(1), None, None, None, None, None, TRUE)}}
    \cup {<<"todo", "get_one", Kwargs(Some(1), Some(-1), None, None, None, None, FALSE)>>}
    \cup {<<svc, "get_many", kw>> : svc \in {"todo", "task"},
        kw \in {Kwargs(None, None, None, None, None, None, FALSE),
                Kwargs(None, None, Some(MAX_PAGE_LIMIT), None, None, None, FALSE),
                Kwargs(None, None, None, Some(-1), None, None, FALSE),
                Kwargs(None, None, None, None, Some(OneFilter("status", <<"active">>)), None, FALSE),
                Kwargs(None, None, None, None, Some(OneFilter("extra", <<"x">>)), None, FALSE)}}
    \cup {<<"task", "get_many",
            Kwargs(None, None, None, None, Some(f), None, FALSE)>> :
                f \in {TwoFilters, EmptyListFilters}}
    \cup {<<"task", "create", Kwargs(None, None, None, None, None, Some(p), FALSE)>> :
            p \in {Payload(None, None, Some(0), Some("x"), FALSE),
                   Payload(None, None, Some(1), Some(NotStr), FALSE),
                   Payload(None, Some(BadEnum), Some(1), Some("x"), FALSE),
                   Payload(None, None, None, Some("x"), FALSE)}}
    \cup {<<"todo", "create", Kwargs(None, None, None, None, None, Some(p), FALSE)>> :
            p \in {Payload(None, Some("active"), None, None, FALSE),
                   Payload(Some("a"), None, None, None, TRUE)}}
    \cup {<<svc, "update", kw>> : svc \in {"todo", "task"},
        kw \in {Kwargs(Some(1), None, None, None, None, None, FALSE),
                Kwargs(Some(1), None, None, None, None, Some(NoPayload), FALSE),
                Kwargs(Some(1), None, None, None, None,
                       Some(Payload(None, Some(BadEnum), None, None, FALSE)), FALSE),
                Kwargs(Some(1), None, None, None, None,
                       Some(Payload(None, None, None, None, TRUE)), FALSE)}}
    \cup {<<svc, "delete", kw>> : svc \in {"todo", "task"},
        kw \in {Kwargs(Some(0), None, None, None, None, None, FALSE),
                Kwargs(Some(1), None, None, None, None, None, TRUE)}}

call_service(svc, method, kw) ==
    /\ rq.pc = "idle"
    /\ rq' = Enter([Idle EXCEPT !.via = "service", !.svc = svc,
                                !.method = method, !.kw = kw])
    /\ UNCHANGED <<todos, tasks, todoSeq, taskSeq, pool>>

\* Service.create / update / delete: try: <repository call> except Exception:
\* logger.error(...); raise.  The outcome of the repository call is the
\* outcome of the method.  (LogAndReturnNone: the exception is swallowed.)
LogAndReturnNone(out) == IF out.exc = "" THEN out ELSE [out EXCEPT !.exc = ""]
LogAndRaise(out) == out

\* ------------------------------------------- the statements sent to storage
\* Service.get_one / get_many / create / update / delete: the repository call
\* each makes with the validated keywords (None ones left out, so that
\* get_many's own defaults apply).  id: the value the serial column draws.
\* valid_data.model_dump(exclude_none=True) of the keywords of create.
Dumped(r) ==
    IF r.svc = "task" THEN ModelDump(Val(r.kw.payload), r.at) ELSE Val(r.kw.payload)

RepositoryCall(r, T, K, id) ==
    CASE r.method = "get_one" -> FetchOne(Table(r.svc), T, K, Val(r.kw.pk))
      [] r.method = "get_many" ->
            FetchMany(Table(r.svc), T, K,
                      IF IsNone(r.kw.limit) THEN DEFAULT_PAGE_LIMIT ELSE Val(r.kw.limit),
                      IF IsNone(r.kw.offset) THEN 0 ELSE Val(r.kw.offset),
                      IF IsNone(r.kw.filters) THEN NoFilters ELSE Val(r.kw.filters))
      [] r.method = "create" ->
            LogAndRaise(InsertOne(Table(r.svc), T, K, id, Dumped(r), r.at))
      [] r.method = "update" ->
            LogAndRaise(UpdateOne(Table(r.svc), T, K, Val(r.kw.pk), Val(r.kw.payload)))
      [] r.method = "delete" ->
            LogAndRaise(DeleteOne(Table(r.svc), T, K, Val(r.kw.pk)))

\* The tables as they were when the row returned fails the output model.
SettleRolledBack(out) ==
    /\ todos' = IF rq'.exc = "BadResponse" THEN todos ELSE out.todos
    /\ tasks' = IF rq'.exc = "BadResponse" THEN tasks ELSE out.tasks
    /\ pool' = IF rq.held /\ ~rq'.held THEN pool - 1 ELSE pool

\* ConnectionManager.__aexit__ gives the connection back to the pool when the
\* `async with self.connection` block is left: the request holds it no more.
\* The transaction of the statement has committed by then.
Settle(out) ==
    /\ todos' = out.todos
    /\ tasks' = out.tasks
    /\ pool' = IF rq.held /\ ~rq'.held THEN pool - 1 ELSE pool

\* TodoRepository.fetch_one between its two statements: the todo is read,
\* the connection is still held.  seen keeps the tasks the todo had when it
\* was read (what the second statement would have found then).
Fetched(r, res, K) ==
    [r EXCEPT !.pc = "prefetch", !.res = res,
              !.seen = {k \in K : k.todo_id = Val(r.kw.pk)}]

\* Service.get_one -> fetch_one.  TodoRepository.fetch_one reads the todo in
\* a transaction; with prefetch_tasks > 0 a second statement follows.
fetch_one ==
    /\ rq.pc = "repo" /\ rq.method = "get_one"
    /\ LET out == RepositoryCall(rq, todos, tasks, 0)
           more == /\ rq.svc = "todo" /\ ~IsNone(out.res)
                   /\ ~IsNone(rq.kw.prefetch_tasks) /\ Val(rq.kw.prefetch_tasks) # 0
       IN /\ rq' = IF more THEN Fetched(rq, out.res, tasks)
                   ELSE AfterCall(rq, out, TRUE)
          /\ Settle(out)
    /\ UNCHANGED <<todoSeq, taskSeq>>

prefetch_tasks ==
    /\ rq.pc = "prefetch"
    /\ LET fetched == PrefetchTasks(tasks, Val(rq.kw.pk), Val(rq.kw.prefetch_tasks))
           out == Outcome("", Some(AttachTasks(Val(rq.res), fetched)), todos, tasks)
       IN /\ rq' = AfterCall(rq, out, TRUE)
          /\ Settle(out)
    /\ UNCHANGED <<todoSeq, taskSeq>>

\* Service.get_many -> fetch_many -> _fetch.  _prepare_query_args runs
\* before the connection block is entered.
fetch_many ==
    /\ rq.pc = "repo" /\ rq.method = "get_many"
    /\ LET out == RepositoryCall(rq, todos, tasks, 0)
       IN /\ rq' = AfterCall(rq, out, out.exc # "KeyError")
          /\ Settle(out)
    /\ UNCHANGED <<todoSeq, taskSeq>>

\* Service.create -> insert_one.  The serial column draws its value before
\* the constraints are checked, so a refused insert uses one up as well.
insert_one ==
    /\ rq.pc = "repo" /\ rq.method = "create"
    /\ IF rq.svc = "todo"
       THEN /\ todoSeq < MaxTodoId
            /\ todoSeq' = todoSeq + 1
            /\ UNCHANGED taskSeq
       ELSE /\ taskSeq < MaxTaskId
            /\ taskSeq' = taskSeq + 1
            /\ UNCHANGED todoSeq
    /\ LET id == IF rq.svc = "todo" THEN todoSeq + 1 ELSE taskSeq + 1
           out == RepositoryCall(rq, todos, tasks, id)
       IN /\ rq' = AfterCall(rq, out, TRUE)
          /\ Settle(out)

\* Service.update -> update_one
update_one ==
    /\ rq.pc = "repo" /\ rq.method = "update"
    /\ LET out == RepositoryCall(rq, todos, tasks, 0)
       IN /\ rq' = AfterCall(rq, out, TRUE)
          /\ Settle(out)
    /\ UNCHANGED <<todoSeq, taskSeq>>

\* Service.delete -> delete_one
delete_one ==
    /\ rq.pc = "repo" /\ rq.method = "delete"
    /\ LET out == RepositoryCall(rq, todos, tasks, 0)
       IN /\ rq' = AfterCall(rq, out, TRUE)
          /\ Settle(out)
    /\ UNCHANGED <<todoSeq, taskSeq>>

\* The response has gone out (or the caller has its result).
finish ==
    /\ rq.pc = "done"
    /\ rq' = Idle
    /\ UNCHANGED <<todos, tasks, todoSeq, taskSeq, pool>>

\* Callers of the repository itself (the service is not in the way): an
\* update_one takes any column, the primary key included, and storage does
\* not require a key to be positive.
\* TodoRepository.update_one(id, {"todo_id": 0})
repo_update_todo(id) ==
    /\ rq.pc = "idle"
    /\ TodoRows(todos, id) # {}
    /\ PrimaryKeyFree(todos, 0)
    /\ ~Referenced(tasks, id)
    /\ todos' = {IF r.todo_id = id THEN [r EXCEPT !.todo_id = 0] ELSE r : r \in todos}
    /\ UNCHANGED <<tasks, todoSeq, taskSeq, pool, rq>>

\* TaskRepository.update_one(tk, {"todo_id": 0})
repo_update_task(tk) ==
    /\ rq.pc = "idle"
    /\ TaskRows(tasks, tk) # {}
    /\ LET out == UpdateOne("tasks", todos, tasks, tk, [NoPayload EXCEPT !.todo_id = Some(0)])
       IN tasks' = out.tasks
    /\ UNCHANGED <<todos, todoSeq, taskSeq, pool, rq>>

Init ==
    /\ todos = {}
    /\ tasks = {}
    /\ todoSeq = 0
    /\ taskSeq = 0
    /\ pool = 0
    /\ rq = Idle

Next ==
    \/ \E q \in TodoQueries : list_todos(q)
    \/ \E b \in TodoBodies : add_todo(b)
    \/ \E id \in PathTodoIds, q \in GetTodoQueries : get_todo(id, q)
    \/ \E id \in PathTodoIds, b \in TodoBodies : update_todo(id, b)
    \/ \E id \in PathTodoIds : delete_todo(id)
    \/ \E id \in PathTodoIds, q \in TaskQueries : list_tasks(id, q)
    \/ \E id \in PathTodoIds, b \in TaskBodies : add_task(id, b)
    \/ \E id \in ItemTodoIds, tk \in PathTaskIds : get_task(id, tk)
    \/ \E id \in ItemTodoIds, tk \in PathTaskIds, b \in TaskBodies : update_task(id, tk, b)
    \/ \E id \in ItemTodoIds, tk \in PathTaskIds : delete_task(id, tk)
    \/ \E c \in ServiceCalls : call_service(c[1], c[2], c[3])
    \/ fetch_one
    \/ prefetch_tasks
    \/ fetch_many
    \/ insert_one
    \/ update_one
    \/ delete_one
    \/ finish
    \/ \E id \in 1 .. MaxTodoId : repo_update_todo(id)
    \/ \E tk \in 1 .. MaxTaskId : repo_update_task(tk)

Spec == Init /\ [][Next]_vars


\* ------------------------------------------------ requests served together
\* Quart serves every request in a task of its own and the tasks take turns
\* at each await.  Here rq holds one request per writer, each with the
\* connection before_request acquired for it; the requests write todos
\* (POST /todos/ and PATCH /todos/{id}/), and each statement is one step of
\* storage, which serialises them.
InitWriters ==
    /\ todos = {}
    /\ tasks = {}
    /\ todoSeq = 0
    /\ taskSeq = 0
    /\ pool = 0
    /\ rq = [i \in 1 .. Writers |-> Idle]

\* The handler of writer i up to its first statement.
Arrive(i, r) ==
    /\ pool < Writers
    /\ rq' = [rq EXCEPT ![i] = r]
    /\ pool' = IF r.held THEN pool + 1 ELSE pool
    /\ UNCHANGED <<todos, tasks, todoSeq, taskSeq>>

writer_add_todo(i, b) ==
    /\ rq[i].pc = "idle"
    /\ Arrive(i, Received(Arrived("add_todo", "todo", "create", None, None, NoQuery, b),
                          CreateTodo(b), "RequestSchemaValidationError",
                          [NoKwargs EXCEPT !.payload = Some(b)]))

writer_update_todo(i, id, b) ==
    /\ rq[i].pc = "idle"
    /\ Arrive(i, Received(Arrived("update_todo", "todo", "update", Some(id), None,
                                  NoQuery, b),
                          UpdateTodo(b), "RequestSchemaValidationError",
                          [NoKwargs EXCEPT !.pk = Some(id), !.payload = Some(b)]))

\* The statement of writer i reaches storage; ConnectionManager gives the
\* connection back.
Written(i, out) ==
    /\ rq' = [rq EXCEPT ![i] = AfterCall(rq[i], out, TRUE)]
    /\ todos' = out.todos
    /\ tasks' = out.tasks
    /\ pool' = IF rq[i].held THEN pool - 1 ELSE pool

writer_insert_one(i) ==
    /\ rq[i].pc = "repo" /\ rq[i].method = "create"
    /\ IF rq[i].svc = "todo"
       THEN /\ todoSeq < MaxTodoId
            /\ todoSeq' = todoSeq + 1
            /\ UNCHANGED taskSeq
       ELSE /\ taskSeq < MaxTaskId
            /\ taskSeq' = taskSeq + 1
            /\ UNCHANGED todoSeq
    /\ Written(i, RepositoryCall(rq[i], todos, tasks,
                                 IF rq[i].svc = "todo" THEN todoSeq + 1 ELSE taskSeq + 1))

writer_update_one(i) ==
    /\ rq[i].pc = "repo" /\ rq[i].method = "update"
    /\ Written(i, RepositoryCall(rq[i], todos, tasks, 0))
    /\ UNCHANGED <<todoSeq, taskSeq>>

writer_finish(i) ==
    /\ rq[i].pc = "done"
    /\ rq' = [rq EXCEPT ![i] = Idle]
    /\ UNCHANGED <<todos, tasks, todoSeq, taskSeq, pool>>

WriterBodies == {Payload(Some(o), None, None, None, FALSE) : o \in Owners}

NextWriters ==
    \/ \E i \in 1 .. Writers, b \in WriterBodies : writer_add_todo(i, b)
    \/ \E i \in 1 .. Writers, id \in 1 .. MaxTodoId, b \in WriterBodies :
            writer_update_todo(i, id, b)
    \/ \E i \in 1 .. Writers : writer_insert_one(i)
    \/ \E i \in 1 .. Writers : writer_update_one(i)
    \/ \E i \in 1 .. Writers : writer_finish(i)

SpecWriters == InitWriters /\ [][NextWriters]_vars


\* --------------------------------------- a read with prefetch among writes
\* GET /todos/{id}/?prefetch_tasks=N served together with requests that
\* create todos and tasks and delete todos.  The two statements of
\* TodoRepository.fetch_one are two steps: the first runs in a transaction
\* of its own, the second on the same connection after that transaction has
\* ended, and storage serves the statements of other connections in between.
reader_get_todo(i, id, pf) ==
    /\ rq[i].pc = "idle"
    /\ Arrive(i, Received(Arrived("get_todo", "todo", "get_one", Some(id), None,
                                  Query(None, None, Some(pf), NoFilters, FALSE),
                                  NoPayload),
                          TRUE, "QuerystringValidationError",
                          [NoKwargs EXCEPT !.pk = Some(id),
                                           !.prefetch_tasks = Some(pf)]))

writer_add_task(i, id, b) ==
    /\ rq[i].pc = "idle"
    /\ Arrive(i, Received(Arrived("add_task", "task", "create", Some(id), None,
                                  NoQuery, b),
                          CreateTaskNoTodoId(b), "RequestSchemaValidationError",
                          [NoKwargs EXCEPT
                              !.payload = Some([ModelDump(b, 0) EXCEPT
                                                    !.todo_id = Some(id)])]))

writer_delete_todo(i, id) ==
    /\ rq[i].pc = "idle"
    /\ Arrive(i, Received(Arrived("delete_todo", "todo", "delete", Some(id), None,
                                  NoQuery, NoPayload),
                          TRUE, "", [NoKwargs EXCEPT !.pk = Some(id)]))

\* The first statement of the reader: the todo.
reader_fetch_one(i) ==
    /\ rq[i].pc = "repo" /\ rq[i].method = "get_one"
    /\ LET out == RepositoryCall(rq[i], todos, tasks, 0)
       IN IF ~IsNone(out.res) /\ Val(rq[i].kw.prefetch_tasks) # 0
          THEN /\ rq' = [rq EXCEPT ![i] = Fetched(rq[i], out.res, tasks)]
               /\ UNCHANGED <<todos, tasks, pool>>
          ELSE Written(i, out)
    /\ UNCHANGED <<todoSeq, taskSeq>>

\* The second statement of the reader: the tasks, as they are by now.
reader_prefetch_tasks(i) ==
    /\ rq[i].pc = "prefetch"
    /\ LET fetched == PrefetchTasks(tasks, Val(rq[i].kw.pk),
                                    Val(rq[i].kw.prefetch_tasks))
       IN Written(i, Outcome("", Some(AttachTasks(Val(rq[i].res), fetched)),
                             todos, tasks))
    /\ UNCHANGED <<todoSeq, taskSeq>>

writer_delete_one(i) ==
    /\ rq[i].pc = "repo" /\ rq[i].method = "delete"
    /\ Written(i, RepositoryCall(rq[i], todos, tasks, 0))
    /\ UNCHANGED <<todoSeq, taskSeq>>

NextReaders ==
    \/ \E i \in 1 .. Writers : writer_add_todo(i, Payload(Some("a"), None, None, None, FALSE))
    \/ \E i \in 1 .. Writers : writer_add_task(i, 1, TaskBody(None, None, None, None))
    \/ \E i \in 1 .. Writers : writer_delete_todo(i, 1)
    \/ \E i \in 1 .. Writers : reader_get_todo(i, 1, MaxTaskId)
    \/ \E i \in 1 .. Writers : writer_insert_one(i)
    \/ \E i \in 1 .. Writers : writer_delete_one(i)
    \/ \E i \in 1 .. Writers : reader_fetch_one(i)
    \/ \E i \in 1 .. Writers : reader_prefetch_tasks(i)
    \/ \E i \in 1 .. Writers : writer_finish(i)

SpecReaders == InitWriters /\ [][NextReaders]_vars


\* ------------------------------------------- a listing read page by page
\* A client of GET /todos/ reads the table in pages: the first request has
\* offset 0, each later one has the todo_id of the last row of the page
\* before as its offset, and the first empty page ends the reading.  The
\* requests of other clients (POST /todos/ and DELETE /todos/{id}/) are
\* served in between.  rq[0] is the client: where it is in the reading (pc),
\* the limit it asks for, its next offset, the keys it was given (got) and
\* the keys stored when it began (start).  A page request has one statement
\* and nothing else of it touches the tables, so it is one step.
PageLimits == {1, 2}

PagerOff == [pc |-> "off", limit |-> 0, offset |-> 0, got |-> <<>>, start |-> {}]

InitPaging ==
    /\ todos = {}
    /\ tasks = {}
    /\ todoSeq = 0
    /\ taskSeq = 0
    /\ pool = 0
    /\ rq = [i \in 0 .. Writers |-> IF i = 0 THEN PagerOff ELSE Idle]

\* GET /todos/?limit=L&offset=O from the query string to the response.
ListPage(limit, offset, T, K) ==
    LET q == Query(Some(limit), Some(offset), None, NoFilters, FALSE)
        r == Received(Arrived("list_todos", "todo", "get_many", None, None, q,
                              NoPayload),
                      ListTodosQueryArgs(q), "QuerystringValidationError",
                      ToServiceQuerySchema(q))
    IN IF r.pc = "repo" THEN AfterCall(r, RepositoryCall(r, T, K, 0), TRUE)
       ELSE r

Keys(rows) == [i \in DOMAIN rows |-> rows[i].todo_id]

pager_begin(limit) ==
    /\ rq[0].pc = "off"
    /\ todos # {}
    /\ rq' = [rq EXCEPT ![0] = [PagerOff EXCEPT
                                   !.pc = "paging", !.limit = limit,
                                   !.start = {r.todo_id : r \in todos}]]
    /\ UNCHANGED <<todos, tasks, todoSeq, taskSeq, pool>>

pager_fetch_many ==
    /\ rq[0].pc = "paging"
    /\ pool < Writers
    /\ LET page == ListPage(rq[0].limit, rq[0].offset, todos, tasks)
       IN rq' = [rq EXCEPT ![0] =
                    IF page.status # 200 THEN [@ EXCEPT !.pc = "failed"]
                    ELSE IF Val(page.res) = <<>> THEN [@ EXCEPT !.pc = "end"]
                    ELSE [@ EXCEPT
                            !.got = @ \o Keys(Val(page.res)),
                            !.offset = Val(page.res)[Len(Val(page.res))].todo_id]]
    /\ UNCHANGED <<todos, tasks, todoSeq, taskSeq, pool>>

NextPaging ==
    \/ \E limit \in PageLimits : pager_begin(limit)
    \/ pager_fetch_many
    \/ \E i \in 1 .. Writers, b \in WriterBodies : writer_add_todo(i, b)
    \/ \E i \in 1 .. Writers, id \in 1 .. MaxTodoId : writer_delete_todo(i, id)
    \/ \E i \in 1 .. Writers : writer_insert_one(i)
    \/ \E i \in 1 .. Writers : writer_delete_one(i)
    \/ \E i \in 1 .. Writers : writer_finish(i)

SpecPaging == InitPaging /\ [][NextPaging]_vars


\* ----------------------------------------------- creates, field by field
\* The create routes and TaskService.create with bodies that supply each
\* optional field or leave it out, at every time of the clock.
Clock == 0 .. MaxTime

\* A due date that is no default of any time of the clock.
SomeDue == MaxTime + 5

FieldTodoBodies == {Payload(Some("a"), s, None, None, FALSE) : s \in Opt(TodoStatus)}

FieldTaskBodies ==
    {TaskBody(None, None, None, None),
     TaskBody(Some("postponed"), None, None, None),
     TaskBody(None, Some("high"), None, None),
     TaskBody(None, None, Some("c"), None),
     TaskBody(None, None, None, Some(SomeDue)),
     TaskBody(None, None, None, Some(Null)),
     TaskBody(Some("complete"), Some("medium"), Some("c"), Some(SomeDue))}

add_task_at(id, b, t) ==
    /\ rq.pc = "idle"
    /\ AddTask(id, b, t)

\* TaskService.create(**payload), called at the time t.
create_task_at(p, t) ==
    /\ rq.pc = "idle"
    /\ rq' = Enter([Idle EXCEPT !.via = "service", !.svc = "task", !.method = "create",
                                !.kw = [NoKwargs EXCEPT !.payload = Some(p)],
                                !.at = t])
    /\ UNCHANGED <<todos, tasks, todoSeq, taskSeq, pool>>

NextFields ==
    \/ \E b \in FieldTodoBodies : add_todo(b)
    \/ \E id \in 1 .. MaxTodoId, b \in FieldTaskBodies, t \in Clock : add_task_at(id, b, t)
    \/ \E b \in FieldTaskBodies, t \in Clock :
            create_task_at([b EXCEPT !.todo_id = Some(1)], t)
    \/ insert_one
    \/ finish

SpecFields == Init /\ [][NextFields]_vars


\* ------------------------------------------------- updates of the enums
\* Todos and tasks created with their defaults, and PATCH requests that name
\* a status or a priority.
StatusTodoBodies == {Payload(None, Some(st), None, None, FALSE) : st \in TodoStatus}

StatusTaskBodies ==
    {[NoPayload EXCEPT !.status = Some(st)] : st \in TaskStatus}
    \cup {[NoPayload EXCEPT !.priority = Some(pr)] : pr \in TaskPriority}

NextStatus ==
    \/ \E b \in WriterBodies : add_todo(b)
    \/ add_task(1, TaskBody(None, None, None, None))
    \/ \E id \in 1 .. MaxTodoId, b \in StatusTodoBodies : update_todo(id, b)
    \/ \E tk \in 1 .. MaxTaskId, b \in StatusTaskBodies : update_task(1, tk, b)
    \/ insert_one
    \/ update_one
    \/ finish

SpecStatus == Init /\ [][NextStatus]_vars


\* ------------------------------------------------- owners of any length
\* POST /todos/ and PATCH /todos/{id}/ with an owner of one character, of
\* none and of 121.
OwnerBodies ==
    {Payload(Some(o), None, None, None, FALSE) : o \in {"a", "", LongOwner}}

NextOwners ==
    \/ \E b \in OwnerBodies : add_todo(b)
    \/ \E id \in 1 .. MaxTodoId, b \in OwnerBodies : update_todo(id, b)
    \/ \E id \in 1 .. MaxTodoId : delete_todo(id)
    \/ insert_one
    \/ update_one
    \/ delete_one
    \/ finish

SpecOwners == Init /\ [][NextOwners]_vars


\* -------------------------------------------------- updates, column by column
\* PATCH requests that name one column or several, the timestamps included,
\* on todos and tasks created through the routes.
SomeTime == MaxTime + 3

UpdateTodoBodies ==
    {[NoPayload EXCEPT !.owner = Some(o)] : o \in Owners}
    \cup {[NoPayload EXCEPT !.created_at = Some(SomeTime)],
          [NoPayload EXCEPT !.status = Some("inactive"), !.updated_at = Some(SomeTime)]}

UpdateTaskBodies ==
    {[NoPayload EXCEPT !.todo_id = Some(MaxTodoId)],
     [NoPayload EXCEPT !.status = Some("complete"), !.updated_at = Some(SomeTime)],
     [NoPayload EXCEPT !.contents = Some("c"), !.due = Some(SomeDue)]}

NextUpdate ==
    \/ \E b \in WriterBodies : add_todo(b)
    \/ add_task(1, TaskBody(None, None, None, None))
    \/ \E id \in 1 .. MaxTodoId, b \in UpdateTodoBodies : update_todo(id, b)
    \/ \E tk \in 1 .. MaxTaskId, b \in UpdateTaskBodies : update_task(1, tk, b)
    \/ insert_one
    \/ update_one
    \/ finish

SpecUpdate == Init /\ [][NextUpdate]_vars


\* ------------------------------------------- fetch_many with an ordering
\* Callers of the repository that pass order_by (no service method does):
\* TodoRepository.fetch_many / TaskRepository.fetch_many(limit, offset,
\* order_by), over todos and tasks created through the routes.
OrderBys(table) ==
    IF table = "todos"
    THEN {<<>>, <<Term("todo_id", TRUE)>>, <<Term("owner", FALSE)>>,
          <<Term("status", TRUE)>>, <<Term("status", FALSE), Term("todo_id", TRUE)>>}
    ELSE {<<>>, <<Term("task_id", TRUE)>>, <<Term("status", FALSE)>>}

OrderTodoBodies ==
    {Payload(Some(o), st, None, None, FALSE) : o \in Owners, st \in Opt({"inactive"})}

OrderTaskBodies ==
    {TaskBody(st, None, None, None) : st \in Opt({"complete"})}

repo_fetch_many(table, limit, offset, order_by) ==
    /\ rq.pc = "idle"
    /\ \E out \in FetchOrdered(table, todos, tasks, limit, offset, NoFilters, order_by) :
            rq' = [Idle EXCEPT !.pc = "done", !.via = "repository",
                               !.svc = IF table = "todos" THEN "todo" ELSE "task",
                               !.method = "get_many",
                               !.kw = [NoKwargs EXCEPT !.limit = Some(limit),
                                                       !.offset = Some(offset)],
                               !.order_by = order_by,
                               !.exc = out.exc, !.res = out.res]
    /\ UNCHANGED <<todos, tasks, todoSeq, taskSeq, pool>>

NextOrder ==
    \/ \E b \in OrderTodoBodies : add_todo(b)
    \/ \E b \in OrderTaskBodies : add_task(1, b)
    \/ \E id \in 1 .. MaxTodoId : delete_todo(id)
    \/ \E table \in {"todos", "tasks"}, limit \in {1, DEFAULT_PAGE_LIMIT},
          offset \in 0 .. 1 :
            \E order_by \in OrderBys(table) : repo_fetch_many(table, limit, offset, order_by)
    \/ insert_one
    \/ delete_one
    \/ finish

SpecOrder == Init /\ [][NextOrder]_vars


\* ================================================================ properties

\* C1: in every reachable state no two stored todos have the same owner.
OwnerUnique == \A r1 \in todos, r2 \in todos : r1.owner = r2.owner => r1 = r2

\* A second holder of an owner was refused while two todos are stored.
OwnerUniqueWitness ==
    /\ rq.pc = "done"
    /\ rq.exc = "UniqueViolationError"
    /\ Cardinality(todos) = 2

\* Every stored task belongs to a stored todo.
TaskHasTodo == \A k \in tasks : \E r \in todos : r.todo_id = k.todo_id

\* insert_one / update_one of tasks is about to run with a todo_id that no
\* stored todo has (an update: of a task that is stored).
NamesMissingTodo ==
    /\ rq.pc = "repo" /\ rq.svc = "task" /\ rq.method \in {"create", "update"}
    /\ ~IsNone(Val(rq.kw.payload).todo_id)
    /\ \A r \in todos : r.todo_id # Val(Val(rq.kw.payload).todo_id)
    /\ (rq.method = "update" => \E k \in tasks : k.task_id = Val(rq.kw.pk))

Refused ==
    NamesMissingTodo =>
        /\ rq'.pc = "done" /\ rq'.exc = "ForeignKeyViolationError"
        /\ tasks' = tasks /\ todos' = todos

\* C2: in every reachable state the todo_id of every stored task is the
\* todo_id of a stored todo, and a task insert or update that names a todo
\* which is not stored is refused and changes nothing.
ForeignKeyIntegrity == []TaskHasTodo /\ [][Refused]_vars

\* An update that would move a stored task to a missing todo was refused.
ForeignKeyWitness ==
    /\ rq.pc = "done" /\ rq.svc = "task" /\ rq.method = "update"
    /\ rq.exc = "ForeignKeyViolationError"
    /\ \E k \in tasks : k.task_id = Val(rq.kw.pk)

\* A delete_one of todos that removed a row, and what fetch_one finds after it.
CascadeStep ==
    (/\ rq.pc = "repo" /\ rq.svc = "todo" /\ rq.method = "delete"
     /\ rq'.res = Some(TRUE))
    => LET id == Val(rq.kw.pk)
       IN /\ IsNone(FetchOne("todos", todos', tasks', id).res)
          /\ \A k \in tasks :
                k.todo_id = id => IsNone(FetchOne("tasks", todos', tasks', k.task_id).res)

\* C3: the step in which delete_one removes a todo removes every task of that
\* todo with it: afterwards fetch_one of the todo and fetch_one of each of its
\* former tasks find nothing.
CascadeDelete == [][CascadeStep]_vars

\* delete_one is about to remove a todo that has MaxTaskId tasks.
CascadeWitness ==
    /\ rq.pc = "repo" /\ rq.svc = "todo" /\ rq.method = "delete"
    /\ TodoRows(todos, Val(rq.kw.pk)) # {}
    /\ Cardinality({k \in tasks : k.todo_id = Val(rq.kw.pk)}) = MaxTaskId

\* C4: GET /todos/{todo_id}/tasks/: a todo_id in the query string is rejected
\* as an undeclared field (400, the service is not called); whenever the
\* service is called the filters hold todo_id = [todo_id of the path]; and
\* every task of the response has the todo_id of the path.
ListTasksScoped ==
    rq.handler = "list_tasks" =>
        /\ "todo_id" \in DOMAIN rq.query.filters =>
                /\ rq.pc = "done" /\ rq.trace = <<>>
                /\ rq.exc = "QuerystringValidationError" /\ rq.status = 400
        /\ rq.trace # <<>> =>
                /\ "todo_id" \in DOMAIN Val(rq.kw.filters)
                /\ Val(rq.kw.filters)["todo_id"] = <<Val(rq.todo_id)>>
        /\ (rq.pc = "done" /\ rq.exc = "") =>
                \A i \in DOMAIN Val(rq.res) : Val(rq.res)[i].todo_id = Val(rq.todo_id)

\* A list was answered while a task of another todo is stored.
ListTasksWitness ==
    /\ rq.handler = "list_tasks" /\ rq.pc = "done" /\ rq.exc = ""
    /\ Len(Val(rq.res)) > 0
    /\ \E k \in tasks : k.todo_id # Val(rq.todo_id)

\* C5: the connection a request acquired is back in the pool when the
\* request completes, on every exit path; so when no request is in flight no
\* connection is checked out.
ConnectionReleased ==
    /\ (rq.pc = "done" /\ rq.via = "http") => ~rq.held
    /\ rq.pc = "idle" => pool = 0


\* Keyword arguments with one of the defects of an input: an unknown
\* keyword, a missing required one, an id / limit / offset out of range, a
\* value of the wrong type, a value that is no member of its enum.
DefectivePayload(svc, method, p) ==
    \/ p.extra
    \/ ~IsNone(p.owner) /\ Val(p.owner) = NotStr
    \/ ~IsNone(p.brief) /\ Val(p.brief) = NotStr
    \/ ~IsNone(p.status) /\ Val(p.status) = BadEnum
    \/ ~IsNone(p.todo_id) /\ Val(p.todo_id) < 1
    \/ method = "create" /\ svc = "todo" /\ IsNone(p.owner)
    \/ method = "create" /\ svc = "task" /\ (IsNone(p.brief) \/ IsNone(p.todo_id))

DefectiveKwargs(svc, method, kw) ==
    \/ kw.extra
    \/ method \in {"get_one", "update", "delete"} /\ IsNone(kw.pk)
    \/ ~IsNone(kw.pk) /\ Val(kw.pk) < 1
    \/ ~IsNone(kw.limit) /\ (Val(kw.limit) < 1 \/ Val(kw.limit) >= MAX_PAGE_LIMIT)
    \/ ~IsNone(kw.offset) /\ Val(kw.offset) < 0
    \/ ~IsNone(kw.prefetch_tasks) /\ Val(kw.prefetch_tasks) < 0
    \/ ~IsNone(kw.filters) /\ "extra" \in DOMAIN Val(kw.filters)
    \/ method \in {"create", "update"} /\ IsNone(kw.payload)
    \/ ~IsNone(kw.payload) /\ DefectivePayload(svc, method, Val(kw.payload))

\* The step in which a service method is called with defective keywords.
RejectsDefective ==
    (/\ rq.pc = "idle" /\ rq'.pc # "idle" /\ rq'.trace # <<>>
     /\ DefectiveKwargs(rq'.svc, rq'.method, rq'.kw))
    => /\ rq'.pc = "done" /\ rq'.exc = "BadRequest" /\ rq'.trace = <<"input">>
       /\ UNCHANGED <<todos, tasks, todoSeq, taskSeq>>

\* C6: a service call whose keyword arguments fail the input schema ends
\* with BadRequest right after input validation: the repository is not
\* called and the stored data is unchanged.
InputRejected == [][RejectsDefective]_vars

\* TaskService.create was called with defective keywords while rows are stored.
InputRejectedWitness ==
    /\ rq.pc = "done" /\ rq.via = "service" /\ rq.method = "create"
    /\ DefectiveKwargs(rq.svc, rq.method, rq.kw)
    /\ rq.exc = "BadRequest"
    /\ tasks # {}

\* A payload with no field that is not null, and the payload the caller of
\* the request in service supplied.
AllNull(p) ==
    /\ IsNone(p.owner) /\ IsNone(p.status) /\ IsNone(p.todo_id) /\ IsNone(p.brief)
    /\ IsNone(p.priority) /\ IsNone(p.contents) /\ ~Given(p.due)
    /\ IsNone(p.created_at) /\ IsNone(p.updated_at)
    /\ ~p.extra

Supplied == IF rq.via = "http" THEN rq.body ELSE PayloadOf(rq.kw)

\* C7: an update of a todo or of a task whose payload has no field that is
\* not null fails validation (in the handler or in the service) and
\* update_one is not called.
EmptyUpdateRejected ==
    (rq.pc # "idle" /\ rq.method = "update" /\ AllNull(Supplied))
    => /\ rq.pc = "done"
       /\ rq.exc \in {"RequestSchemaValidationError", "BadRequest"}
       /\ "call" \notin Range(rq.trace)

\* The service refused an empty payload for a row that is stored.
EmptyUpdateWitness ==
    /\ rq.pc = "done" /\ rq.via = "service" /\ rq.method = "update"
    /\ rq.kw.payload = Some(NoPayload)
    /\ rq.exc = "BadRequest"
    /\ (rq.svc = "task" /\ TaskRows(tasks, Val(rq.kw.pk)) # {})

\* C8: a request whose input fails validation, in the handler's schema or in
\* the service's input model, is answered with 400.
InputFailureIs400 ==
    (/\ rq.pc = "done" /\ rq.via = "http"
     /\ rq.exc \in {"RequestSchemaValidationError", "QuerystringValidationError",
                    "BadRequest"})
    => rq.status = 400

\* A row that storage holds and the Task model refuses: a key that is not
\* positive.  ReturnsDrifted: the repository returned such a row, alone or
\* as an item of a list.
DriftedRow(k) == k.task_id < 1 \/ k.todo_id < 1

ReturnsDrifted(method, out) ==
    /\ out.exc = "" /\ ~IsNone(out.res)
    /\ CASE method = "get_many" ->
                \E i \in DOMAIN Val(out.res) : DriftedRow(Val(out.res)[i])
         [] method = "delete" -> FALSE
         [] OTHER -> DriftedRow(Val(out.res))

\* What the repository call of the request in service returns in this state.
Returned ==
    RepositoryCall(rq, todos, tasks, IF rq.svc = "todo" THEN todoSeq + 1 ELSE taskSeq + 1)

DriftedStep ==
    (/\ rq.pc = "repo" /\ rq.svc = "task" /\ rq'.pc = "done"
     /\ ReturnsDrifted(rq.method, Returned))
    => /\ rq'.exc = "BadResponse" /\ IsNone(rq'.res)
       /\ rq'.trace = <<"input", "call", "output">>
       /\ (rq.via = "http" => rq'.status = 500)

\* C9: when what the repository returned fails the output model the service
\* call ends with BadResponse (not BadRequest) and returns nothing, a list
\* with one invalid item included, and the request is answered with 500.
OutputRejected == [][DriftedStep]_vars

\* TaskService.get_many read a valid and an invalid row and raised.
OutputRejectedWitness ==
    /\ rq.pc = "done" /\ rq.svc = "task" /\ rq.method = "get_many"
    /\ rq.exc = "BadResponse"
    /\ \E k \in tasks : k.task_id > 0 /\ ~DriftedRow(k)
    /\ \E k \in tasks : k.task_id > 0 /\ DriftedRow(k)

\* The steps of the wrapper in their order; rq.trace records those taken.
Steps == <<"input", "call", "output">>

InOrder ==
    /\ \E n \in 0 .. 3 : rq.trace = SubSeq(Steps, 1, n)
    /\ rq.pc \in {"repo", "prefetch"} => rq.trace = <<"input">>

ReturnStep ==
    (rq.pc \in {"repo", "prefetch"} /\ rq'.pc = "done" /\ rq.method # "delete")
    => /\ rq'.trace \in {<<"input", "call">>, Steps}
       /\ (rq.pc = "repo" /\ Returned.exc = "" /\ IsNone(Returned.res))
          => /\ rq'.trace = <<"input", "call">>
             /\ IsNone(rq'.res) /\ rq'.exc \in {"", "NotFound"}
       /\ (rq.pc = "repo" /\ Returned.exc = "" /\ ~IsNone(Returned.res))
          => rq'.trace = Steps
       /\ rq.pc = "prefetch" => rq'.trace = Steps
       /\ (rq.pc = "repo" /\ Returned.exc # "") => rq'.trace = <<"input", "call">>

\* C10: in a service call input validation comes first, the repository call
\* follows once and only after it, output validation comes last and only
\* for a result that is not None; a None result is returned as it is.
ValidationOrder == []InOrder /\ [][ReturnStep]_vars

\* TaskService.get_one found no row and returned None.
ValidationOrderWitness ==
    /\ rq.pc = "done" /\ rq.via = "service" /\ rq.method = "get_one"
    /\ rq.trace = <<"input", "call">>
    /\ IsNone(rq.res) /\ rq.exc = ""
    /\ tasks # {}


\* The repository call of the request in service is a fetch_one, update_one
\* or delete_one on a key that is not stored.
AbsentKey ==
    /\ rq.pc = "repo" /\ rq.method \in {"get_one", "update", "delete"}
    /\ IF rq.svc = "todo" THEN TodoRows(todos, Val(rq.kw.pk)) = {}
       ELSE TaskRows(tasks, Val(rq.kw.pk)) = {}

NotFoundStep ==
    AbsentKey =>
        /\ Returned.exc = "" /\ IsNone(Returned.res)
        /\ todos' = todos /\ tasks' = tasks
        /\ rq'.pc = "done"
        /\ rq.via = "service" =>
                /\ rq'.exc = ""
                /\ rq'.res = IF rq.method = "delete" THEN Some(FALSE) ELSE None
        /\ rq.via = "http" =>
                /\ rq'.exc = "NotFound" /\ rq'.status = 404
                /\ rq'.message[1] = (IF rq.svc = "todo" THEN "Todo with id"
                                     ELSE "Task with id")
                /\ rq'.message[2] = Val(rq.kw.pk)

\* C11: fetch_one, update_one and delete_one on a key that is not stored
\* return None without raising and change no stored row, and the handler
\* answers the request with 404 and a message that names the entity and the
\* key.
NotFoundOnAbsentKey == [][NotFoundStep]_vars

\* PATCH of a todo that is not stored, while another one is, was answered 404.
NotFoundWitness ==
    /\ rq.pc = "done" /\ rq.via = "http" /\ rq.handler = "update_todo"
    /\ rq.status = 404
    /\ rq.message = <<"Todo with id", Val(rq.todo_id), "not found">>
    /\ todos # {}

\* A key the serial column has drawn and no row holds stays without a row.
AbsentStable ==
    /\ \A id \in 1 .. MaxTodoId :
            (id <= todoSeq /\ TodoRows(todos, id) = {}) => TodoRows(todos', id) = {}
    /\ \A id \in 1 .. MaxTaskId :
            (id <= taskSeq /\ TaskRows(tasks, id) = {}) => TaskRows(tasks', id) = {}

DeleteStep ==
    (rq.pc = "repo" /\ rq.method = "delete") =>
        LET id == Val(rq.kw.pk)
            seq == IF rq.svc = "todo" THEN todoSeq ELSE taskSeq
        IN /\ Returned.exc = ""
           /\ rq'.exc \in {"", "NotFound"}
           /\ IsNone(Returned.res) =>
                /\ rq'.res = Some(FALSE)
                /\ todos' = todos /\ tasks' = tasks
                /\ IsNone(DeleteOne(Table(rq.svc), todos', tasks', id).res)
           /\ ~IsNone(Returned.res) =>
                /\ Returned.res = Some(id) /\ rq'.res = Some(TRUE)
                /\ id <= seq
                /\ IsNone(DeleteOne(Table(rq.svc), todos', tasks', id).res)

\* C12: delete_one of a key that is not stored returns None, raises nothing
\* and changes nothing, so that repeating it gives the same; after a
\* delete_one that returned the key, delete_one of that key returns None, and
\* a key that was drawn and is not stored is never stored again.
DeleteIdempotent == [][DeleteStep /\ AbsentStable]_vars

\* Todo 1 was stored (the first insert into an empty table cannot be
\* refused), it was deleted (no row was renumbered), and a later delete of it
\* found nothing.
DeleteIdempotentWitness ==
    /\ rq.pc = "done" /\ rq.svc = "todo" /\ rq.method = "delete"
    /\ rq.kw.pk = Some(1) /\ rq.res = Some(FALSE)
    /\ todoSeq >= 1
    /\ TodoRows(todos, 1) = {} /\ TodoRows(todos, 0) = {}

\* The primary key of a row the repository returned.
PkOf(svc, row) == IF svc = "todo" THEN row.todo_id ELSE row.task_id

\* C13: when insert_one has returned a row, fetch_one on the key of that row
\* (nothing written in between) returns a row equal to it field for field.
InsertFetchRoundTrip ==
    (rq.pc = "done" /\ rq.method = "create" /\ rq.exc = "")
    => FetchOne(Table(rq.svc), todos, tasks, PkOf(rq.svc, Val(rq.res))).res = rq.res

\* A todo was created with a status that is not the default one.
InsertFetchWitness ==
    /\ rq.pc = "done" /\ rq.svc = "todo" /\ rq.method = "create" /\ rq.exc = ""
    /\ Val(rq.res).status = "inactive"
    /\ Val(rq.res).todo_id = MaxTodoId


\* The arguments of the fetch_many the request in service is about to make.
FetchLimit == IF IsNone(rq.kw.limit) THEN DEFAULT_PAGE_LIMIT ELSE Val(rq.kw.limit)
FetchOffset == IF IsNone(rq.kw.offset) THEN 0 ELSE Val(rq.kw.offset)
FetchFilters == IF IsNone(rq.kw.filters) THEN NoFilters ELSE Val(rq.kw.filters)

\* The stored rows of the table that satisfy pk > offset and, for every
\* column of the filters, hold one of the values listed for it.
Satisfying ==
    {r \in (IF rq.svc = "todo" THEN todos ELSE tasks) :
        /\ PkOf(rq.svc, r) > FetchOffset
        /\ \A c \in DOMAIN FetchFilters :
                \E i \in DOMAIN FetchFilters[c] : r[c] = FetchFilters[c][i]}

Min(a, b) == IF a < b THEN a ELSE b

\* The list fetch_many returns: rows that satisfy the conditions, as many
\* as min(limit, their number), ascending in the key, the lowest keys first.
FirstOfSatisfying(res) ==
    /\ Len(res) = Min(FetchLimit, Cardinality(Satisfying))
    /\ \A i \in DOMAIN res :
            /\ PkOf(rq.svc, res[i]) > FetchOffset
            /\ \E r \in Satisfying :
                    /\ PkOf(rq.svc, r) = PkOf(rq.svc, res[i])
                    /\ \A c \in DOMAIN r : r[c] = res[i][c]
    /\ \A i \in DOMAIN res, j \in DOMAIN res :
            i < j => PkOf(rq.svc, res[i]) < PkOf(rq.svc, res[j])
    /\ \A r \in Satisfying :
            (\A i \in DOMAIN res : PkOf(rq.svc, res[i]) # PkOf(rq.svc, r))
            => \A i \in DOMAIN res : PkOf(rq.svc, res[i]) < PkOf(rq.svc, r)

PlainFetchStep ==
    (rq.pc = "repo" /\ rq.method = "get_many" /\ DOMAIN FetchFilters = {})
    => /\ Returned.exc = ""
       /\ FirstOfSatisfying(Val(Returned.res))
       /\ rq'.exc = "" => rq'.res = Returned.res

\* C14: fetch_many without filters and with the default ordering returns
\* min(limit, number of stored rows with a key greater than offset) rows,
\* each with a key greater than offset, in ascending order of the key.
FetchManyPaged == [][PlainFetchStep]_vars

\* A page of one row was returned from behind an offset that a stored row
\* lies on.
FetchManyPagedWitness ==
    /\ rq.pc = "done" /\ rq.svc = "todo" /\ rq.method = "get_many" /\ rq.exc = ""
    /\ DOMAIN FetchFilters = {}
    /\ FetchOffset = 1 /\ TodoRows(todos, 1) # {}
    /\ Len(Val(rq.res)) = 1

FilteredFetchStep ==
    (/\ rq.pc = "repo" /\ rq.method = "get_many" /\ DOMAIN FetchFilters # {}
     /\ Returned.exc = "")
    => /\ FirstOfSatisfying(Val(Returned.res))
       /\ rq'.exc = "" => rq'.res = Returned.res

\* C15: fetch_many with filters returns only rows that hold, for every filter
\* column, one of the values listed for it, and have a key greater than
\* offset; of the rows that do, the first `limit` in the ordering.
FetchManyFiltered == [][FilteredFetchStep]_vars

\* Filters on two columns, one with two values: a task matching the second
\* value was returned, a task matching one column only was not.
FetchManyFilteredWitness ==
    /\ rq.pc = "done" /\ rq.svc = "task" /\ rq.method = "get_many" /\ rq.exc = ""
    /\ FetchFilters = TwoFilters
    /\ \E i \in DOMAIN Val(rq.res) : Val(rq.res)[i].todo_id = MaxTodoId
    /\ \E k \in tasks : k.todo_id \in {1, MaxTodoId} /\ k.status # "pending"


\* prefetch_tasks of the request in service (the input model's default: 0).
Prefetch == IF IsNone(rq.kw.prefetch_tasks) THEN 0 ELSE Val(rq.kw.prefetch_tasks)

\* C16: a todo read with prefetch_tasks = 0 has tasks = null; read with
\* prefetch_tasks = N > 0 it has a list of min(N, number of its tasks) tasks,
\* all of that todo, ascending in task_id, lowest first (an empty list, not
\* null, when it has none); a todo returned by create has tasks = null.
PrefetchedTasks ==
    (rq.pc = "done" /\ rq.svc = "todo" /\ rq.exc = "" /\ ~IsNone(rq.res)) =>
        /\ rq.method = "create" => IsNone(Val(rq.res).tasks)
        /\ (rq.method = "get_one" /\ Prefetch = 0) => IsNone(Val(rq.res).tasks)
        /\ (rq.method = "get_one" /\ Prefetch > 0) =>
            /\ ~IsNone(Val(rq.res).tasks)
            /\ LET got == Val(Val(rq.res).tasks)
                   own == {k \in tasks : k.todo_id = Val(rq.kw.pk)}
               IN /\ Len(got) = Min(Prefetch, Cardinality(own))
                  /\ \A i \in DOMAIN got : got[i] \in own
                  /\ \A i \in DOMAIN got, j \in DOMAIN got :
                        i < j => got[i].task_id < got[j].task_id
                  /\ \A k \in own :
                        k \notin Range(got) =>
                            \A i \in DOMAIN got : got[i].task_id < k.task_id

\* A todo without tasks was read with prefetch_tasks > 0 while another todo
\* has tasks: the list is empty.
PrefetchedTasksWitness ==
    /\ rq.pc = "done" /\ rq.svc = "todo" /\ rq.method = "get_one" /\ rq.exc = ""
    /\ Prefetch > 0
    /\ Val(rq.res).tasks = Some(<<>>)
    /\ tasks # {}

\* A todo with MaxTaskId tasks was read with a smaller prefetch_tasks.
PrefetchedLimitWitness ==
    /\ rq.pc = "done" /\ rq.svc = "todo" /\ rq.method = "get_one" /\ rq.exc = ""
    /\ Prefetch = MaxTaskId - 1
    /\ Cardinality({k \in tasks : k.todo_id = Val(rq.kw.pk)}) = MaxTaskId
    /\ Len(Val(Val(rq.res).tasks)) = MaxTaskId - 1


\* What storage answers to the insert or update the request in service is
\* about to send.
StorageOutcome ==
    IF rq.method = "create"
    THEN InsertOne(Table(rq.svc), todos, tasks,
                   IF rq.svc = "todo" THEN todoSeq + 1 ELSE taskSeq + 1,
                   Dumped(rq), rq.at)
    ELSE UpdateOne(Table(rq.svc), todos, tasks, Val(rq.kw.pk), Val(rq.kw.payload))

ConstraintViolations == {"UniqueViolationError", "ForeignKeyViolationError"}

ConstraintStep ==
    (/\ rq.pc = "repo" /\ rq.method \in {"create", "update"}
     /\ StorageOutcome.exc \in ConstraintViolations)
    => /\ rq'.pc = "done"
       /\ rq'.exc = StorageOutcome.exc
       /\ IsNone(rq'.res)
       /\ rq'.trace = <<"input", "call">>
       /\ todos' = todos /\ tasks' = tasks
       /\ rq.via = "http" => rq'.status = 500

\* C18: a create or update that storage refuses for a constraint (an owner
\* already held, a todo_id of no stored todo) ends with that storage error at
\* the caller of the service method: not with None or Not Found, after one
\* repository call, and with both tables as they were.
ConstraintErrorRaised == [][ConstraintStep]_vars

\* PATCH of a todo to the owner of the other one ended with the storage error.
ConstraintErrorWitness ==
    /\ rq.pc = "done" /\ rq.handler = "update_todo"
    /\ rq.exc = "UniqueViolationError" /\ rq.status = 500
    /\ \E r \in todos : r.todo_id # Val(rq.kw.pk) /\ Some(r.owner) = Val(rq.kw.payload).owner
    /\ \E r \in todos : r.todo_id = Val(rq.kw.pk) /\ Some(r.owner) # Val(rq.kw.payload).owner


\* Writer i is about to send a statement that gives a row the owner o; the
\* row is the one with key pk (a new key for an insert).
WritesOwner(i, o, pk) ==
    /\ rq[i].pc = "repo"
    /\ Val(rq[i].kw.payload).owner = Some(o)
    /\ pk = (IF rq[i].method = "create" THEN todoSeq + 1 ELSE Val(rq[i].kw.pk))
    /\ (rq[i].method = "update" => TodoRows(todos, pk) # {})

\* The statement of a writer: refused when another row holds the owner,
\* carried out when none does, whatever the other writers have done or are
\* about to do.
WriterStep ==
    \A i \in 1 .. Writers, o \in Owners, pk \in 1 .. MaxTodoId :
        (WritesOwner(i, o, pk) /\ rq'[i].pc = "done") =>
            IF \E r \in todos : r.owner = o /\ r.todo_id # pk
            THEN /\ rq'[i].exc = "UniqueViolationError" /\ rq'[i].status = 500
                 /\ todos' = todos
            ELSE /\ rq'[i].exc = ""
                 /\ \E r \in todos' : r.owner = o /\ r.todo_id = pk

\* No two stored todos have the same owner (rq holds several requests).
OneHolder == \A r1 \in todos, r2 \in todos : r1.owner = r2.owner => r1 = r2

\* Two requests in flight at once that wrote todos for the same owner (two
\* creates, or two updates of different todos) have not both succeeded.
NotBoth ==
    \A i \in 1 .. Writers, j \in 1 .. Writers :
        (/\ i # j
         /\ rq[i].pc = "done" /\ rq[j].pc = "done"
         /\ rq[i].exc = "" /\ rq[j].exc = ""
         /\ ~IsNone(rq[i].res) /\ ~IsNone(rq[j].res)
         /\ Val(rq[i].res).owner = Val(rq[j].res).owner
         /\ Val(rq[i].res).todo_id # Val(rq[j].res).todo_id)
        => \E k \in 1 .. 2 :
                LET w == IF k = 1 THEN i ELSE j
                IN \A r \in todos :
                        r.todo_id = Val(rq[w].res).todo_id => r.owner # Val(rq[w].res).owner

\* C19: requests that create todos with the same owner, or update different
\* todos to the same owner, while in flight together: in every interleaving
\* of their steps the first statement to reach storage persists its row and
\* the other is refused with the storage error; no two todos ever share an
\* owner; nothing but the storage constraint decides it.
ConcurrentOwnerWrites == []OneHolder /\ []NotBoth /\ [][WriterStep]_vars

\* Two creates with the same owner are in flight and both have their
\* answer: one has its row, the other the storage error.
ConcurrentOwnerWitness ==
    /\ rq[1].pc = "done" /\ rq[2].pc = "done"
    /\ rq[1].method = "create" /\ rq[2].method = "create"
    /\ rq[1].kw.payload = rq[2].kw.payload
    /\ rq[1].exc = "UniqueViolationError" /\ rq[2].exc = ""
    /\ Cardinality({r \in todos : Some(r.owner) = Val(rq[1].kw.payload).owner}) = 1
    /\ Cardinality(todos) = 1


\* The value a field of the created row has to have: the one supplied, or
\* the default when the key was left out (or, for due, was null).
OrDefault(o, default) == IF IsNone(o) THEN default ELSE Val(o)

\* C17: the row a create persisted has, in every field the payload supplies,
\* the value supplied, and in every optional field it leaves out the default:
\* status active for a todo; for a task status pending, priority low,
\* contents null and due one day after the time of the call.
CreatedWithDefaults ==
    (rq.pc = "done" /\ rq.method = "create" /\ rq.exc = "") =>
        LET b == Supplied
            new == Val(rq.res)
        IN IF rq.svc = "todo"
           THEN \E r \in todos :
                    /\ r.todo_id = new.todo_id
                    /\ r.owner = Val(b.owner) /\ new.owner = r.owner
                    /\ r.status = OrDefault(b.status, "active") /\ new.status = r.status
           ELSE \E k \in tasks :
                    /\ k = new
                    /\ k.todo_id = (IF rq.via = "http" THEN Val(rq.todo_id)
                                    ELSE Val(b.todo_id))
                    /\ k.status = OrDefault(b.status, "pending")
                    /\ k.priority = OrDefault(b.priority, "low")
                    /\ k.contents = b.contents
                    /\ k.due = (IF Given(b.due) THEN Val(b.due) ELSE rq.at + OneDay)

\* A task was created at the time MaxTime from a body with the required
\* fields only.
CreatedWithDefaultsWitness ==
    /\ rq.pc = "done" /\ rq.svc = "task" /\ rq.method = "create" /\ rq.exc = ""
    /\ rq.at = MaxTime
    /\ Supplied = TaskBody(None, None, None, None)
    /\ Val(rq.res).due = MaxTime + OneDay
    /\ Val(rq.res).priority = "low" /\ Val(rq.res).status = "pending"
    /\ IsNone(Val(rq.res).contents)


\* A payload of update that names a status or a priority and nothing else.
NamesEnumOnly(p) ==
    /\ IsNone(p.owner) /\ IsNone(p.todo_id) /\ IsNone(p.brief)
    /\ IsNone(p.contents) /\ IsNone(p.due) /\ ~p.extra
    /\ IsNone(p.created_at) /\ IsNone(p.updated_at)
    /\ ~(IsNone(p.status) /\ IsNone(p.priority))

\* The stored row of the entity the request in service is about.
Entity(T, K) ==
    IF rq.svc = "todo" THEN CHOOSE r \in T : r.todo_id = Val(rq.kw.pk)
    ELSE CHOOSE k \in K : k.task_id = Val(rq.kw.pk)

\* A PATCH naming a member of the enum passes validation whatever is stored.
EnumAccepted ==
    (/\ rq.pc = "idle" /\ rq'.pc # "idle" /\ rq'.method = "update"
     /\ NamesEnumOnly(rq'.body) /\ Val(rq'.kw.pk) > 0)
    => rq'.pc = "repo"

\* The update of a stored entity that names a status (a priority) leaves it
\* in that status (priority), whatever the one it had.
EnumUpdated ==
    (/\ rq.pc = "repo" /\ rq.method = "update"
     /\ NamesEnumOnly(Val(rq.kw.payload))
     /\ ~AbsentKey)
    => LET p == Val(rq.kw.payload)
           old == Entity(todos, tasks)
           new == Entity(todos', tasks')
       IN /\ rq'.pc = "done" /\ rq'.exc = "" /\ rq'.status = 200
          /\ new.status = OrDefault(p.status, old.status)
          /\ Val(rq'.res).status = new.status
          /\ rq.svc = "task" =>
                /\ new.priority = OrDefault(p.priority, old.priority)
                /\ Val(rq'.res).priority = new.priority

\* C20: an update that names any member of the enum succeeds for an entity
\* in any status and leaves it in the named one (the same for the priority
\* of a task): no status or priority is barred from following another.
NoTransitionRules == [][EnumAccepted /\ EnumUpdated]_vars

\* A complete task is about to be set back to pending, after its priority
\* was raised.
NoTransitionRulesWitness ==
    /\ rq.pc = "repo" /\ rq.svc = "task" /\ rq.method = "update"
    /\ Val(rq.kw.payload).status = Some("pending")
    /\ ~AbsentKey
    /\ Entity(todos, tasks).status = "complete"
    /\ Entity(todos, tasks).priority = "high"


\* C21: fetch_many with a filter on any column the filter schema accepts
\* finds a cast for the column, builds its predicate and reaches storage: no
\* get_many that passed input validation ends on a missing cast.
FilterColumnHasCast ==
    /\ (rq.pc = "repo" /\ rq.method = "get_many") =>
            DOMAIN FetchFilters \subseteq TypeCast(Table(rq.svc))
    /\ (rq.pc = "done" /\ rq.method = "get_many") => rq.exc # "KeyError"


\* The predicate and the bound values of the fetch_many the request in
\* service is about to make (every filter column has a cast).
BuiltPredicate == PrepareQueryArgs(FetchFilters, FilterOrder(Table(rq.svc)), 3)
BoundValues == ChainValues(FetchFilters, FilterOrder(Table(rq.svc)))

RECURSIVE Placeholders(_)
Placeholders(parts) ==
    IF parts = <<>> THEN 0 ELSE Len(Head(parts).subs) + Placeholders(Tail(parts))

\* C22: the predicate built for fetch_many has one conjunct for each filter
\* column with a non-empty value list and none for a column with an empty
\* one, and as many placeholders as there are filter values bound.
ConjunctPerNonEmptyColumn ==
    (/\ rq.pc = "repo" /\ rq.method = "get_many"
     /\ DOMAIN FetchFilters \subseteq TypeCast(Table(rq.svc)))
    => /\ {part.col : part \in Range(BuiltPredicate)}
            = {c \in DOMAIN FetchFilters : Len(FetchFilters[c]) > 0}
       /\ \A i \in DOMAIN BuiltPredicate, j \in DOMAIN BuiltPredicate :
            BuiltPredicate[i].col = BuiltPredicate[j].col => i = j
       /\ Placeholders(BuiltPredicate) = Len(BoundValues)


\* The rows of the table of the request in service, as the repository
\* returns them.
StoredRows == IF rq.svc = "todo" THEN {TodoRow(r, None) : r \in todos} ELSE tasks

\* The ordering of the fetch_many that was made: order_by, or the primary
\* key when none was passed.
RequestedOrder ==
    IF rq.order_by = <<>>
    THEN <<Term(IF rq.svc = "todo" THEN "todo_id" ELSE "task_id", FALSE)>>
    ELSE rq.order_by

\* C23: fetch_many with any order_by applies offset as primary key > offset,
\* not as a number of rows to skip in the requested order: every row returned
\* has a key greater than offset, and the result is the first `limit` rows,
\* in the requested order, of the stored rows with a key greater than offset.
OrderedFetchKeyset ==
    (rq.pc = "done" /\ rq.via = "repository" /\ rq.method = "get_many") =>
        LET res == Val(rq.res)
            beyond == {r \in StoredRows : PkOf(rq.svc, r) > FetchOffset}
        IN /\ rq.exc = ""
           /\ \A i \in DOMAIN res : PkOf(rq.svc, res[i]) > FetchOffset
           /\ \A i \in DOMAIN res : res[i] \in beyond
           /\ \A i \in DOMAIN res, j \in DOMAIN res : i # j => res[i] # res[j]
           /\ Len(res) = Min(FetchLimit, Cardinality(beyond))
           /\ \A i \in DOMAIN res, j \in DOMAIN res :
                i < j => Compare(res[i], res[j], RequestedOrder) <= 0
           /\ \A r \in beyond \ Range(res), i \in DOMAIN res :
                Compare(res[i], r, RequestedOrder) <= 0

\* Two todos are stored and a page of one row was read in descending order
\* of the key with offset 1: the row returned is the first of that order (a
\* skip of one row would have returned the other).
OrderedFetchWitness ==
    /\ rq.pc = "done" /\ rq.via = "repository" /\ rq.svc = "todo"
    /\ rq.order_by = <<Term("todo_id", TRUE)>>
    /\ FetchOffset = 1 /\ FetchLimit = 1
    /\ Cardinality(todos) = 2
    /\ Len(Val(rq.res)) = 1 /\ Val(rq.res)[1].todo_id = 2


\* GET /todos/{todo_id}/tasks/{task_id}/ is about to read a stored task that
\* the Task model accepts: it is returned with 200, whatever the todo_id of
\* the path.
GetTaskStep ==
    (/\ rq.pc = "repo" /\ rq.handler = "get_task"
     /\ \E k \in TaskRows(tasks, Val(rq.task_id)) : Task(k))
    => /\ rq'.pc = "done" /\ rq'.exc = "" /\ rq'.status = 200
       /\ Val(rq'.res) \in TaskRows(tasks, Val(rq.task_id))
       /\ Val(rq.kw.pk) = Val(rq.task_id)

\* The tasks GET /todos/{todo_id}/tasks/ answered with are tasks of the todo
\* of the path.
ListedOfPath ==
    (rq.handler = "list_tasks" /\ rq.pc = "done" /\ rq.exc = "") =>
        \A k \in Range(Val(rq.res)) : k \in tasks /\ k.todo_id = Val(rq.todo_id)

\* C24: GET /todos/{todo_id}/tasks/{task_id}/ looks the task up by task_id
\* alone: a stored task with that task_id is returned with 200 even when its
\* todo_id is not the one of the path, while GET /todos/{todo_id}/tasks/
\* returns tasks of the todo of the path only.
GetTaskIgnoresTodoId == []ListedOfPath /\ [][GetTaskStep]_vars

\* A task of another todo than the one of the path was returned with 200.
GetTaskOtherTodoWitness ==
    /\ rq.pc = "done" /\ rq.handler = "get_task" /\ rq.status = 200
    /\ Val(rq.res).todo_id # Val(rq.todo_id)
    /\ Val(rq.res) \in tasks


\* C25: a todo read with prefetch_tasks > 0 comes with the task list of the
\* state of the store in which the todo was read: under every interleaving
\* with writers the list returned is the one the todo had then, not one read
\* after the todo was deleted or after its tasks had changed.
PrefetchSingleState ==
    \A i \in 1 .. Writers :
        (/\ rq[i].pc = "done" /\ rq[i].method = "get_one" /\ rq[i].exc = ""
         /\ ~IsNone(rq[i].res)
         /\ Val(rq[i].kw.prefetch_tasks) > 0)
        => Val(rq[i].res).tasks
            = Some(Limit(SortTasks(rq[i].seen), Val(rq[i].kw.prefetch_tasks)))


\* C26: in every reachable state the owner of every stored todo is a string
\* of at least one and at most 120 characters: no create or update with an
\* empty owner, or with one of more than 120 characters, leaves a stored row
\* with that owner.
OwnerLengthBounded ==
    \A r \in todos : IsStr(r.owner) /\ StrLen(r.owner) >= 1 /\ StrLen(r.owner) <= 120


\* C27: TaskService.get_many is scoped to named todos: a filters object
\* without todo_id is rejected with BadRequest, every call that reaches the
\* repository carries a todo_id filter, and every task returned belongs to a
\* todo that filter names.
TaskListingScoped ==
    (rq.pc # "idle" /\ rq.svc = "task" /\ rq.method = "get_many"
     /\ rq.trace # <<>>) =>
        LET f == rq.kw.filters
        IN /\ (~IsNone(f) /\ "todo_id" \notin DOMAIN Val(f)) =>
                    rq.pc = "done" /\ rq.exc = "BadRequest"
           /\ (rq.pc = "repo" \/ "call" \in Range(rq.trace)) =>
                    ~IsNone(f) /\ "todo_id" \in DOMAIN Val(f)
           /\ (rq.pc = "done" /\ rq.exc = "") =>
                    \A k \in Range(Val(rq.res)) :
                        ~IsNone(f) /\ k.todo_id \in Range(Val(f)["todo_id"])


\* The payload names the column c, and the value it gives it.
Names(p, c) ==
    /\ c \in DOMAIN p /\ c # "extra"
    /\ IF c = "due" THEN Given(p[c]) ELSE ~IsNone(p[c])

NamedValue(p, c) == IF c = "contents" THEN p[c] ELSE Val(p[c])

\* update_one of a stored row that storage carries out.
UpdateFrameStep ==
    (/\ rq.pc = "repo" /\ rq.method = "update" /\ ~AbsentKey
     /\ rq'.exc = "")
    => LET p == Val(rq.kw.payload)
           old == Entity(todos, tasks)
           new == Entity(todos', tasks')
       IN /\ \A c \in DOMAIN old :
                new[c] = IF Names(p, c) THEN NamedValue(p, c) ELSE old[c]
          /\ PkOf(rq.svc, new) = PkOf(rq.svc, old)
          /\ IF rq.svc = "todo"
             THEN /\ todos' \ {new} = todos \ {old}
                  /\ tasks' = tasks
                  /\ Val(rq'.res) = TodoRow(new, None)
             ELSE /\ tasks' \ {new} = tasks \ {old}
                  /\ todos' = todos
                  /\ Val(rq'.res) = new

PagingExactlyOnce ==
    LET pg == rq[0]
    IN /\ \A i, j \in DOMAIN pg.got : i < j => pg.got[i] < pg.got[j]
       /\ pg.pc # "failed"
       /\ pg.pc = "end" =>
              \A r \in todos :
                  r.todo_id \in pg.start =>
                      Cardinality({i \in DOMAIN pg.got : pg.got[i] = r.todo_id}) = 1

\* A reading with one row a page that ended after a row was inserted between
\* its pages: the row stored at the beginning and the new one were each
\* given once.
PagingAmongWritesWitness ==
    /\ rq[0].pc = "end"
    /\ rq[0].limit = 1
    /\ rq[0].start = {1}
    /\ rq[0].got = <<1, 2>>
    /\ {r.todo_id : r \in todos} = {1, 2}

\* A reading that ended after a row it had not reached was deleted.
PagingAmongDeletesWitness ==
    /\ rq[0].pc = "end"
    /\ rq[0].start = {1, 2}
    /\ rq[0].got = <<1>>
    /\ {r.todo_id : r \in todos} = {1}


\* The create or update the request in service is about to make comes back
\* with a row the output model refuses: the statement was carried out, the
\* tables are as it left them when BadResponse is raised, and the row is in
\* its table (a new key for a create; the named columns with the supplied
\* values for an update).
WriteKeptStep ==
    (/\ rq.pc = "repo" /\ rq.method \in {"create", "update"}
     /\ rq'.pc = "done" /\ rq'.exc = "BadResponse")
    => LET out == StorageOutcome
       IN /\ out.exc = "" /\ ~IsNone(out.res)
          /\ ~OutputModel(rq.svc, rq.method, Val(out.res))
          /\ rq'.trace = <<"input", "call", "output">>
          /\ IsNone(rq'.res)
          /\ todos' = out.todos /\ tasks' = out.tasks
          /\ IF rq.svc = "todo"
             THEN \E r \in todos' : TodoRow(r, None) = Val(out.res)
             ELSE Val(out.res) \in tasks'
          /\ IF rq.method = "create"
             THEN PkOf(rq.svc, Val(out.res)) \notin
                     {PkOf(rq.svc, r) : r \in StoredRows}
             ELSE /\ ~AbsentKey
                  /\ \A c \in DOMAIN Entity(todos, tasks) :
                        Entity(todos', tasks')[c]
                            = IF Names(Val(rq.kw.payload), c)
                              THEN NamedValue(Val(rq.kw.payload), c)
                              ELSE Entity(todos, tasks)[c]

\* After an update ended with BadResponse the row is stored with the values
\* the payload named.
WriteKeptAfter ==
    (rq.pc = "done" /\ rq.method = "update" /\ rq.exc = "BadResponse") =>
        /\ \E r \in StoredRows : PkOf(rq.svc, r) = Val(rq.kw.pk)
        /\ \A c \in DOMAIN Entity(todos, tasks) :
                Names(Val(rq.kw.payload), c) =>
                    Entity(todos, tasks)[c] = NamedValue(Val(rq.kw.payload), c)

\* C30: a create or update that ends with BadResponse because the row
\* storage returned fails the output model has been carried out and
\* committed by the repository: the inserted or updated row is in storage
\* after the error; the failure of the output validation undoes nothing.
WriteKeptOnBadResponse == []WriteKeptAfter /\ [][WriteKeptStep]_vars

\* A task whose todo_id a direct caller of the repository had set to 0 was
\* set to complete through the service: BadResponse, and the task is stored
\* as complete.
WriteKeptWitness ==
    /\ rq.pc = "done" /\ rq.svc = "task" /\ rq.method = "update"
    /\ rq.exc = "BadResponse"
    /\ Val(rq.kw.payload).status = Some("complete")
    /\ \E k \in tasks : /\ k.task_id = Val(rq.kw.pk) /\ k.todo_id = 0
                        /\ k.status = "complete"
====
